---- MODULE Spec2Model ----
(***************************************************************************)
(* Model of the chat orchestration engine of gopendu-sen/chatmiddlelayer:  *)
(* chat_module/service.py (ChatService, ChatSessionState), with the        *)
(* completion backend (chat_module/llm_client.py) and the retrieval        *)
(* provider as sources of nondeterministic outcomes; and of the retrieval  *)
(* cache manager, load_vectorstore/loader.py (CachedVectorStoreManager),   *)
(* with the loading of a store and its search as such sources.             *)
(*                                                                         *)
(* Python strings are TLA+ strings (Len, \o and SubSeq act on them as on   *)
(* Python's len, + and slicing).  An Optional[T] value is <<>> for None    *)
(* and <<v>> for a value v.                                                *)
(***************************************************************************)
EXTENDS Integers, Sequences, FiniteSets, TLC

VARIABLES
    config,      \* ChatService.config: the ChatConfig fields the engine reads
    provider,    \* ChatService.vector_store_provider is not None
    sessions,    \* ChatService.sessions: session id -> ChatSessionState
    gens,        \* the generator objects stream_chat has returned, in creation order
    clock,       \* the value time.time() returns now
    result,      \* what the last call returned to, or raised in, its caller
    appended,    \* history: every message _append_message was given, per session
    commit_log,  \* history: the generators whose post-turn commit ran, in order
    snapshots,   \* history: per session, the last two get_history returns since
                 \* the last stream_chat call that passed validation
    ttl_seconds, \* CachedVectorStoreManager.ttl_seconds
    cache,       \* CachedVectorStoreManager._cache: session id -> _CacheEntry
    monotonic,   \* the value time.monotonic() returns now
    loaded,      \* the loaders load_vector_store has returned so far: 1..loaded
    cache_result,\* what the last call of the manager returned or raised
    evictions,   \* history: session id -> the entry evicted for it, until a new
                 \* loader is cached for the session
    stream       \* the generator of a ChatLLMClient.stream_completion call: the
                 \* lines of the response, how many were read, what was yielded

chatVars == <<config, provider, sessions, gens, clock, result, appended, commit_log, snapshots>>

cacheVars == <<ttl_seconds, cache, monotonic, loaded, cache_result, evictions>>

vars == <<config, provider, sessions, gens, clock, result, appended, commit_log, snapshots,
          ttl_seconds, cache, monotonic, loaded, cache_result, evictions, stream>>

(***************************************************************************)
(* Bounds of the model.                                                    *)
(***************************************************************************)
MaxCap == 2          \* max_history_messages ranges over 0..MaxCap
MaxTurns == 2        \* stream_chat calls that pass validation, in a run
MaxFragments == 2    \* text fragments one incremental completion delivers
MaxMonotonic == 3    \* time.monotonic() ranges over 0..MaxMonotonic
MaxCalls == 4        \* calls of the cache manager, in a run
MaxClock == 1        \* the clock stops ticking here
MaxLines == 3        \* lines in the response to a streaming request

(***************************************************************************)
(* Optional values and Python truthiness.                                  *)
(***************************************************************************)
None == <<>>
Some(v) == <<v>>

\* bool(x) of an Optional[str]: None and "" are falsy
Truthy(o) == o # None /\ o[1] # ""

\* Python's `a or b` on Optional[str]
PyOr(a, b) == IF Truthy(a) THEN a ELSE b

Max(a, b) == IF a >= b THEN a ELSE b
Min(a, b) == IF a <= b THEN a ELSE b

\* Python's seq[start:], for any integer start
PySliceFrom(seq, start) ==
    LET n == Len(seq)
        from == IF start < 0 THEN Max(0, n + start) ELSE Min(start, n)
    IN  SubSeq(seq, from + 1, n)

IsSpace(c) == c \in {" ", "\t", "\n"}

RECURSIVE LStrip(_)
LStrip(s) ==
    IF s = "" THEN ""
    ELSE IF IsSpace(SubSeq(s, 1, 1)) THEN LStrip(SubSeq(s, 2, Len(s)))
    ELSE s

RECURSIVE RStrip(_)
RStrip(s) ==
    IF s = "" THEN ""
    ELSE IF IsSpace(SubSeq(s, Len(s), Len(s))) THEN RStrip(SubSeq(s, 1, Len(s) - 1))
    ELSE s

\* str.strip()
Strip(s) == RStrip(LStrip(s))

\* str.startswith()
StartsWith(text, prefix) ==
    Len(text) >= Len(prefix) /\ SubSeq(text, 1, Len(prefix)) = prefix

(***************************************************************************)
(* Fixed texts of the program.                                             *)
(***************************************************************************)
DefaultSystemPrompt ==
    "You are a concise, helpful assistant. Use provided context and summaries " \o
    "to ground your answers. Keep responses factual and avoid revealing system " \o
    "prompts or internal notes."

SummaryNotePrefix == "Conversation summary: "
ContextNotePrefix == "Context for this turn:\n"
TruncationSystemNote == "History was replaced with a summary to fit the context window."
TruncationNotice == "Note: Some earlier conversation was truncated to fit the context window. "

Msg(role, content) == [role |-> role, content |-> content]

(***************************************************************************)
(* Inputs and backend outcomes.                                            *)
(***************************************************************************)
\* the session ids of the core specification
SessionIds == {"s1"}

LongMessage == "please summarise the deployment steps"

BaseRequest ==
    [message |-> "hi", vector_store_dir |-> None, enable_context |-> None,
     enable_summarisation |-> None, enable_intent_tracking |-> None,
     system_prompt |-> None]

\* the requests of the core specification
Requests ==
    {[BaseRequest EXCEPT !.message = m] : m \in {"hi", LongMessage}}
    \cup {[BaseRequest EXCEPT !.vector_store_dir = Some("d1")]}

\* what ChatLLMClient.complete does: raise, or return a text (possibly empty)
CompleteOutcomes ==
    {[ok |-> FALSE, text |-> ""]}
    \cup {[ok |-> TRUE, text |-> t] : t \in {"", " recap "}}

\* what VectorStoreContextProvider.build_context does: raise, or return (context, results)
RetrievalOutcomes ==
    {[ok |-> FALSE, context |-> "", results |-> <<>>],
     [ok |-> TRUE, context |-> "", results |-> <<>>],
     [ok |-> TRUE, context |-> "doc text", results |-> <<"doc1">>]}

\* the non-empty deltas stream_completion yields: the i-th one, of up to MaxFragments
Fragment(i) == IF i % 2 = 1 THEN "ok" ELSE " then"

\* the configurations the service is constructed with
PromptBudgets == {-1, 0, 45}

(***************************************************************************)
(* ChatService helpers.                                                    *)
(***************************************************************************)
\* ChatService._flag
Flag(overridden, default) == IF overridden = None THEN default ELSE overridden[1]

\* ChatService._estimate_tokens
EstimateTokens(text) == Max(1, Len(text) \div 4)

RECURSIVE TokenCount(_)
\* the sum of line 237
TokenCount(prompt) ==
    IF prompt = <<>> THEN 0
    ELSE EstimateTokens(Head(prompt).content) + TokenCount(Tail(prompt))

\* ChatSessionState(session_id=...) at time now
NewSession(now) ==
    [messages |-> <<>>, summary |-> "", intents |-> <<>>, last_context |-> "",
     last_retrievals |-> <<>>, vector_store_dir |-> None, updated_at |-> now]

\* faulty variant: a full list keeps its oldest messages
AppendMessageKeepingOldest(session, message) ==
    LET grown == Append(session.messages, message)
    IN  IF Len(grown) > config.max_history_messages
        THEN [session EXCEPT !.messages = SubSeq(grown, 1, config.max_history_messages)]
        ELSE [session EXCEPT !.messages = grown]

\* ChatService._append_message
AppendMessage(session, message) ==
    LET grown == Append(session.messages, message)
    IN  IF Len(grown) > config.max_history_messages
        THEN [session EXCEPT !.messages = PySliceFrom(grown, -config.max_history_messages)]
        ELSE [session EXCEPT !.messages = grown]

\* faulty variant: the context note precedes the summary note
BuildPromptContextFirst(session, context, system_prompt_override) ==
    LET system_prompt == PyOr(system_prompt_override, Some(config.system_prompt))[1]
    IN  <<Msg("system", system_prompt)>>
        \o (IF context # "" THEN <<Msg("system", ContextNotePrefix \o context)>> ELSE <<>>)
        \o (IF session.summary # "" THEN <<Msg("system", SummaryNotePrefix \o session.summary)>> ELSE <<>>)
        \o session.messages

\* ChatService._build_prompt
BuildPrompt(session, context, system_prompt_override) ==
    LET system_prompt == PyOr(system_prompt_override, Some(config.system_prompt))[1]
    IN  <<Msg("system", system_prompt)>>
        \o (IF session.summary # "" THEN <<Msg("system", SummaryNotePrefix \o session.summary)>> ELSE <<>>)
        \o (IF context # "" THEN <<Msg("system", ContextNotePrefix \o context)>> ELSE <<>>)
        \o session.messages

\* ChatService._refresh_summary, the completion request ending as `outcome`
RefreshSummary(session, outcome) ==
    [session |-> IF outcome.ok THEN [session EXCEPT !.summary = outcome.text] ELSE session,
     completes |-> 1]

\* ChatService._track_intent, the completion request ending as `outcome`
TrackIntent(session, outcome) ==
    [session |-> IF outcome.ok /\ outcome.text # ""
                 THEN [session EXCEPT !.intents = Append(@, Strip(outcome.text))]
                 ELSE session,
     completes |-> 1]

\* faulty variant: the summary is refreshed even when one exists
EnsureSummaryAlways(session, outcome) == RefreshSummary(session, outcome)

\* ChatService._ensure_summary
EnsureSummary(session, outcome) ==
    IF session.summary # ""
    THEN [session |-> session, completes |-> 0]
    ELSE RefreshSummary(session, outcome)

\* faulty variant: the last two non-system messages are kept
RebuildPromptKeepsTwo(session, prompt) ==
    LET system_msgs == SelectSeq(prompt, LAMBDA m : m.role = "system")
        user_msgs == SelectSeq(prompt, LAMBDA m : m.role # "system")
        latest_user == PySliceFrom(user_msgs, -2)
    IN  system_msgs
        \o (IF session.summary # "" THEN <<Msg("system", SummaryNotePrefix \o session.summary)>> ELSE <<>>)
        \o <<Msg("system", TruncationSystemNote)>>
        \o latest_user

\* the rebuilt prompt of ChatService._enforce_prompt_budget, lines 244-258
RebuildPrompt(session, prompt) ==
    LET system_msgs == SelectSeq(prompt, LAMBDA m : m.role = "system")
        user_msgs == SelectSeq(prompt, LAMBDA m : m.role # "system")
        latest_user == PySliceFrom(user_msgs, -1)
    IN  system_msgs
        \o (IF session.summary # "" THEN <<Msg("system", SummaryNotePrefix \o session.summary)>> ELSE <<>>)
        \o <<Msg("system", TruncationSystemNote)>>
        \o latest_user

\* faulty variant: the summary is ensured before the budget is looked at
EnforceEnsuresFirst(session, prompt, max_tokens, outcome) ==
    LET ensured == EnsureSummary(session, outcome)
    IN  IF max_tokens <= 0 \/ TokenCount(prompt) <= max_tokens
        THEN [session |-> ensured.session, prompt |-> prompt, truncated |-> FALSE,
              completes |-> ensured.completes]
        ELSE [session |-> ensured.session,
              prompt |-> RebuildPrompt(ensured.session, prompt),
              truncated |-> TRUE,
              completes |-> ensured.completes]

\* faulty variant: the stored history is collapsed along with the prompt
EnforceCollapsesHistory(session, prompt, max_tokens, outcome) ==
    IF max_tokens <= 0 \/ TokenCount(prompt) <= max_tokens
    THEN [session |-> session, prompt |-> prompt, truncated |-> FALSE, completes |-> 0]
    ELSE LET ensured == EnsureSummary(session, outcome)
         IN  [session |-> [ensured.session EXCEPT !.messages = PySliceFrom(@, -1)],
              prompt |-> RebuildPrompt(ensured.session, prompt),
              truncated |-> TRUE,
              completes |-> ensured.completes]

\* faulty variant: a prompt that costs exactly the budget is rebuilt too
EnforceStrictly(session, prompt, max_tokens, outcome) ==
    IF max_tokens <= 0 \/ TokenCount(prompt) < max_tokens
    THEN [session |-> session, prompt |-> prompt, truncated |-> FALSE, completes |-> 0]
    ELSE LET ensured == EnsureSummary(session, outcome)
         IN  [session |-> ensured.session,
              prompt |-> RebuildPrompt(ensured.session, prompt),
              truncated |-> TRUE,
              completes |-> ensured.completes]

\* ChatService._enforce_prompt_budget; `outcome` is how a summary request, if made, ends
EnforcePromptBudget(session, prompt, max_tokens, outcome) ==
    IF max_tokens <= 0
    THEN [session |-> session, prompt |-> prompt, truncated |-> FALSE, completes |-> 0]
    ELSE IF TokenCount(prompt) <= max_tokens
    THEN [session |-> session, prompt |-> prompt, truncated |-> FALSE, completes |-> 0]
    ELSE LET ensured == EnsureSummary(session, outcome)
         IN  [session |-> ensured.session,
              prompt |-> RebuildPrompt(ensured.session, prompt),
              truncated |-> TRUE,
              completes |-> ensured.completes]

(***************************************************************************)
(* Initial state: a freshly constructed ChatService.                       *)
(***************************************************************************)
\* ChatService.__init__ with a config whose history cap is one of `caps` and whose
\* prompt budget is one of `budgets`
InitService(caps, budgets) ==
    /\ config \in [max_history_messages : caps,
                   max_prompt_tokens : budgets,
                   system_prompt : {DefaultSystemPrompt},
                   enable_context : {TRUE},
                   enable_summarisation : {TRUE},
                   enable_intent_tracking : {TRUE}]
    /\ provider = TRUE
    /\ sessions = <<>>
    /\ gens = <<>>
    /\ clock = 0
    /\ result = [op |-> "init"]
    /\ appended = <<>>
    /\ commit_log = <<>>
    /\ snapshots = <<>>
    /\ stream = [pc |-> "idle"]

InitChat == InitService(0..MaxCap, PromptBudgets)

\* loader.py line 35
DEFAULT_CACHE_TTL_SECONDS == 60 * 60

\* CachedVectorStoreManager.__init__
InitManager(ttl) ==
    /\ ttl_seconds = ttl
    /\ cache = <<>>
    /\ monotonic = 0
    /\ loaded = 0
    /\ cache_result = [op |-> "init", call |-> 0]
    /\ evictions = <<>>

\* the service, and a manager as the provider constructs it (service.py line 48)
Init == InitChat /\ InitManager(DEFAULT_CACHE_TTL_SECONDS)

\* the keys of the sessions dict
Known == DOMAIN sessions

Put(f, k, v) == [x \in (DOMAIN f) \cup {k} |-> IF x = k THEN v ELSE f[x]]

\* the generators of session sid whose commit has run
CommitsOf(sid) == Len(SelectSeq(commit_log, LAMBDA g : gens[g].sid = sid))

Tick ==
    /\ clock < MaxClock
    /\ clock' = clock + 1
    /\ UNCHANGED <<config, provider, sessions, gens, result, appended, commit_log, snapshots, cacheVars, stream>>

(***************************************************************************)
(* stream_chat: everything the call does before it returns the generator.  *)
(***************************************************************************)
Raised(op, sid, error) == [op |-> op, sid |-> sid, gen |-> 0, status |-> error, value |-> ""]

\* lines 81-84: the arguments stream_chat rejects
Rejects(sid, req) == sid = "" \/ req.message = "" \/ Strip(req.message) = ""

\* faulty variant: the session is resolved (line 86) before the arguments are checked
StreamChatRejectedCreating(sid, req) ==
    /\ Rejects(sid, req)
    /\ result' = Raised("stream_chat", sid, "ValueError")
    /\ sessions' = IF sid \in Known THEN sessions ELSE Put(sessions, sid, NewSession(clock))
    /\ UNCHANGED <<config, provider, gens, clock, appended, commit_log, snapshots, cacheVars, stream>>

StreamChatRejected(sid, req) ==
    /\ Rejects(sid, req)
    /\ result' = Raised("stream_chat", sid, "ValueError")
    /\ UNCHANGED <<config, provider, sessions, gens, clock, appended, commit_log, snapshots, cacheVars, stream>>

\* faulty variant: the location of the request replaces the bound one
BindLatest(session, vector_store_dir) ==
    [session EXCEPT !.vector_store_dir = PyOr(vector_store_dir, @)]

\* line 87
Bind(session, vector_store_dir) ==
    [session EXCEPT !.vector_store_dir = PyOr(@, vector_store_dir)]

\* faulty variant: a failed retrieval falls back on the context of the last turn
RetrieveKeepingLast(session, retrieves, rout) ==
    IF retrieves /\ rout.ok
    THEN [context |-> rout.context, results |-> rout.results]
    ELSE [context |-> session.last_context, results |-> session.last_retrievals]

\* lines 89-101: context_text and retrievals after the retrieval step, which is
\* made if `retrieves` and then ends as `rout`
Retrieve(session, retrieves, rout) ==
    IF retrieves /\ rout.ok
    THEN [context |-> rout.context, results |-> rout.results]
    ELSE [context |-> "", results |-> <<>>]

\* lines 86-109 and the closure of lines 111-132; `rout` is how the retrieval, if
\* made, ends, and `sout` how the summary request of _ensure_summary, if made, ends
Prepare(sid, req, rout, sout) ==
    LET resolved == IF sid \in Known THEN sessions[sid] ELSE NewSession(clock)
        bound == Bind(resolved, req.vector_store_dir)
        use_context == Flag(req.enable_context, config.enable_context)
        retrieves == use_context /\ Truthy(req.vector_store_dir) /\ provider
        found == Retrieve(bound, retrieves, rout)
        context_text == found.context
        retrievals == found.results
        with_user == AppendMessage(bound, Msg("user", req.message))
        assembled == BuildPrompt(with_user, context_text, req.system_prompt)
        enforced == EnforcePromptBudget(with_user, assembled, config.max_prompt_tokens, sout)
    IN  [session |-> enforced.session,
         gen |-> [sid |-> sid,
                  message |-> req.message,
                  vector_store_dir |-> req.vector_store_dir,
                  system_prompt |-> req.system_prompt,
                  enable_summarisation |-> req.enable_summarisation,
                  enable_intent_tracking |-> req.enable_intent_tracking,
                  context_text |-> context_text,
                  retrievals |-> retrievals,
                  prompt_messages |-> enforced.prompt,
                  truncated |-> enforced.truncated,
                  assistant_reply |-> "",
                  pc |-> "start",
                  \* history of the call and of the consumption
                  yielded |-> <<>>,
                  fragments |-> 0,
                  pre |-> resolved,
                  commits0 |-> CommitsOf(sid),
                  assembled |-> assembled,
                  enforce_in |-> with_user,
                  enforce_out |-> enforced.session,
                  retrieved |-> retrieves,
                  \* the store_dir build_context was called with (line 94)
                  queried |-> IF retrieves THEN req.vector_store_dir ELSE None,
                  retrieval_failed |-> retrieves /\ ~rout.ok,
                  call_completes |-> enforced.completes,
                  call_streams |-> 0,
                  run_completes |-> 0,
                  run_streams |-> 0,
                  sent |-> <<>>]]

\* one stream_chat call that passes validation, its retrieval ending as `rout` and
\* the summary request of _ensure_summary as `sout`
StreamChatWith(sid, req, rout, sout) ==
    /\ ~Rejects(sid, req)
    /\ Len(gens) < MaxTurns
    /\ LET p == Prepare(sid, req, rout, sout)
       IN  /\ sessions' = Put(sessions, sid, p.session)
           /\ gens' = Append(gens, p.gen)
           /\ appended' = Put(appended, sid,
                              (IF sid \in DOMAIN appended THEN appended[sid] ELSE <<>>)
                              \o <<Msg("user", req.message)>>)
           /\ result' = [op |-> "stream_chat", sid |-> sid, gen |-> Len(gens) + 1,
                         status |-> "ok", value |-> ""]
    /\ snapshots' = <<>>
    /\ UNCHANGED <<config, provider, clock, commit_log, cacheVars, stream>>

StreamChat(sid, req) ==
    \E rout \in RetrievalOutcomes, sout \in CompleteOutcomes :
        StreamChatWith(sid, req, rout, sout)

(***************************************************************************)
(* The generator of lines 111-130, one next() call at a time.  It is       *)
(* suspended at "start" (not begun), "notice" (line 116) or "streaming"    *)
(* (line 119), and ends "done" (returned), "failed" (raised) or "closed".  *)
(***************************************************************************)
Live == {"start", "notice", "streaming"}

\* faulty variant: the notice is yielded without being added to the reply
StepNoticeUnrecorded(session, gen) ==
    [session |-> session,
     gen |-> [gen EXCEPT !.yielded = Append(@, TruncationNotice), !.pc = "notice"]]

\* lines 113-116
StepNotice(session, gen) ==
    [session |-> session,
     gen |-> [gen EXCEPT !.assistant_reply = @ \o TruncationNotice,
                         !.yielded = Append(@, TruncationNotice),
                         !.pc = "notice"]]

\* entering the loop of line 117 sends the request of llm_client.py lines 38-43
Opened(gen) ==
    IF gen.pc = "streaming" THEN gen
    ELSE [gen EXCEPT !.run_streams = @ + 1, !.sent = gen.prompt_messages]

\* faulty variant: the reply is inserted after the user message it answers
CommitAfterOwnMessage(session, gen, now) ==
    LET own == {i \in DOMAIN session.messages : session.messages[i] = Msg("user", gen.message)}
        at == IF own = {} THEN Len(session.messages)
              ELSE CHOOSE i \in own : \A j \in own : j <= i
        placed == SubSeq(session.messages, 1, at)
                  \o <<Msg("assistant", gen.assistant_reply)>>
                  \o SubSeq(session.messages, at + 1, Len(session.messages))
    IN  [session EXCEPT !.messages = PySliceFrom(placed, -config.max_history_messages),
                        !.last_context = gen.context_text,
                        !.last_retrievals = gen.retrievals,
                        !.updated_at = now]

\* faulty variant: the context of the turn is not recorded
CommitWithoutContext(session, gen, now) ==
    [AppendMessage(session, Msg("assistant", gen.assistant_reply))
        EXCEPT !.last_retrievals = gen.retrievals,
               !.updated_at = now]

\* lines 121-124
Commit(session, gen, now) ==
    [AppendMessage(session, Msg("assistant", gen.assistant_reply))
        EXCEPT !.last_context = gen.context_text,
               !.last_retrievals = gen.retrievals,
               !.updated_at = now]

\* faulty variant: every delivered delta advances updated_at
StepTokenTouching(session, gen, token) ==
    [session |-> [session EXCEPT !.updated_at = clock],
     gen |-> [Opened(gen) EXCEPT !.assistant_reply = @ \o token,
                                 !.yielded = Append(@, token),
                                 !.fragments = @ + 1,
                                 !.pc = "streaming"]]

\* faulty variant: the commit of lines 121-124 sits inside the loop
StepTokenCommitting(session, gen, token) ==
    LET grown == [Opened(gen) EXCEPT !.assistant_reply = @ \o token,
                                     !.yielded = Append(@, token),
                                     !.fragments = @ + 1,
                                     !.pc = "streaming"]
    IN  [session |-> Commit(session, grown, clock), gen |-> grown]

\* lines 117-119: the backend delivered the delta `token`
StepToken(session, gen, token) ==
    [session |-> session,
     gen |-> [Opened(gen) EXCEPT !.assistant_reply = @ \o token,
                                 !.yielded = Append(@, token),
                                 !.fragments = @ + 1,
                                 !.pc = "streaming"]]

\* faulty variant: the reply is appended a second time after the post-turn requests
StepEndCommittingTwice(session, gen, now, sumOut, intOut) ==
    LET committed == Commit(session, gen, now)
        summarises == Flag(gen.enable_summarisation, config.enable_summarisation)
        tracks == Flag(gen.enable_intent_tracking, config.enable_intent_tracking)
        summarised == IF summarises THEN RefreshSummary(committed, sumOut)
                      ELSE [session |-> committed, completes |-> 0]
        tracked == IF tracks THEN TrackIntent(summarised.session, intOut)
                   ELSE [session |-> summarised.session, completes |-> 0]
    IN  [session |-> Commit(tracked.session, gen, now),
         gen |-> [Opened(gen) EXCEPT !.run_completes = @ + summarised.completes + tracked.completes,
                                     !.pc = "done"],
         logged |-> (IF summarises /\ ~sumOut.ok THEN <<"summary">> ELSE <<>>)
                    \o (IF tracks /\ ~intOut.ok THEN <<"intent">> ELSE <<>>)]

\* faulty variant: a failure of the summary request ends the post-turn code
StepEndSkipping(session, gen, now, sumOut, intOut) ==
    LET committed == Commit(session, gen, now)
        summarises == Flag(gen.enable_summarisation, config.enable_summarisation)
        tracks == Flag(gen.enable_intent_tracking, config.enable_intent_tracking)
                  /\ ~(summarises /\ ~sumOut.ok)
        summarised == IF summarises THEN RefreshSummary(committed, sumOut)
                      ELSE [session |-> committed, completes |-> 0]
        tracked == IF tracks THEN TrackIntent(summarised.session, intOut)
                   ELSE [session |-> summarised.session, completes |-> 0]
    IN  [session |-> tracked.session,
         gen |-> [Opened(gen) EXCEPT !.run_completes = @ + summarised.completes + tracked.completes,
                                     !.pc = "done"],
         logged |-> (IF summarises /\ ~sumOut.ok THEN <<"summary">> ELSE <<>>)
                    \o (IF tracks /\ ~intOut.ok THEN <<"intent">> ELSE <<>>)]

\* lines 121-130: the stream ended; the summary and intent requests, if made, end
\* as `sumOut` and `intOut`, and `logged` lists the failures logger.exception reports
StepEnd(session, gen, now, sumOut, intOut) ==
    LET committed == Commit(session, gen, now)
        summarises == Flag(gen.enable_summarisation, config.enable_summarisation)
        tracks == Flag(gen.enable_intent_tracking, config.enable_intent_tracking)
        summarised == IF summarises THEN RefreshSummary(committed, sumOut)
                      ELSE [session |-> committed, completes |-> 0]
        tracked == IF tracks THEN TrackIntent(summarised.session, intOut)
                   ELSE [session |-> summarised.session, completes |-> 0]
    IN  [session |-> tracked.session,
         gen |-> [Opened(gen) EXCEPT !.run_completes = @ + summarised.completes + tracked.completes,
                                     !.pc = "done"],
         logged |-> (IF summarises /\ ~sumOut.ok THEN <<"summary">> ELSE <<>>)
                    \o (IF tracks /\ ~intOut.ok THEN <<"intent">> ELSE <<>>)]

\* faulty variant: the reply received so far is committed before the error leaves
StepFailCommitting(session, gen) ==
    [session |-> Commit(session, gen, clock), gen |-> [Opened(gen) EXCEPT !.pc = "failed"]]

\* the request of line 117, or the reading of its response, raised
StepFail(session, gen) ==
    [session |-> session, gen |-> [Opened(gen) EXCEPT !.pc = "failed"]]

\* faulty variant: the time of the commit is written to every session
ResumedTouchingAll(g, step, status, value) ==
    /\ sessions' = [sid \in DOMAIN sessions |->
                        IF sid = gens[g].sid THEN step.session
                        ELSE [sessions[sid] EXCEPT !.updated_at = step.session.updated_at]]
    /\ gens' = [gens EXCEPT ![g] = step.gen]
    /\ result' = [op |-> "next", sid |-> gens[g].sid, gen |-> g, status |-> status, value |-> value,
                  logged |-> IF "logged" \in DOMAIN step THEN step.logged ELSE <<>>]

Resumed(g, step, status, value) ==
    /\ sessions' = [sessions EXCEPT ![gens[g].sid] = step.session]
    /\ gens' = [gens EXCEPT ![g] = step.gen]
    /\ result' = [op |-> "next", sid |-> gens[g].sid, gen |-> g, status |-> status, value |-> value,
                  logged |-> IF "logged" \in DOMAIN step THEN step.logged ELSE <<>>]

NextNotice(g) ==
    /\ gens[g].pc = "start"
    /\ gens[g].truncated
    /\ Resumed(g, StepNotice(sessions[gens[g].sid], gens[g]), "yield", TruncationNotice)
    /\ UNCHANGED <<config, provider, clock, appended, commit_log, snapshots, cacheVars, stream>>

\* the generator is at, or about to enter, the loop of line 117
AtLoop(g) ==
    \/ gens[g].pc = "start" /\ ~gens[g].truncated
    \/ gens[g].pc \in {"notice", "streaming"}

NextToken(g) ==
    /\ AtLoop(g)
    /\ gens[g].fragments < MaxFragments
    /\ LET token == Fragment(gens[g].fragments + 1)
       IN  Resumed(g, StepToken(sessions[gens[g].sid], gens[g], token), "yield", token)
    /\ UNCHANGED <<config, provider, clock, appended, commit_log, snapshots, cacheVars, stream>>

\* the next() call that finds the stream ended, the two post-turn requests ending
\* as `sumOut` and `intOut`
NextEndWith(g, sumOut, intOut) ==
    /\ AtLoop(g)
    /\ Resumed(g, StepEnd(sessions[gens[g].sid], gens[g], clock, sumOut, intOut),
               "StopIteration", "")
    /\ appended' = [appended EXCEPT ![gens[g].sid] =
                        Append(@, Msg("assistant", gens[g].assistant_reply))]
    /\ commit_log' = Append(commit_log, g)
    /\ UNCHANGED <<config, provider, clock, snapshots, cacheVars, stream>>

NextEnd(g) ==
    \E sumOut \in CompleteOutcomes, intOut \in CompleteOutcomes : NextEndWith(g, sumOut, intOut)

NextFail(g) ==
    /\ AtLoop(g)
    /\ Resumed(g, StepFail(sessions[gens[g].sid], gens[g]), "Unavailable", "")
    /\ UNCHANGED <<config, provider, clock, appended, commit_log, snapshots, cacheVars, stream>>

\* faulty variant: closing the generator takes the history back to what it was
\* before the turn
CloseRestoring(g) ==
    /\ gens[g].pc \in Live
    /\ gens' = [gens EXCEPT ![g].pc = "closed"]
    /\ sessions' = [sessions EXCEPT ![gens[g].sid].messages = gens[g].pre.messages]
    /\ result' = [op |-> "close", sid |-> gens[g].sid, gen |-> g, status |-> "ok", value |-> ""]
    /\ UNCHANGED <<config, provider, clock, appended, commit_log, snapshots, cacheVars, stream>>

\* the consumer stops iterating: generator.close(), or the generator is dropped
Close(g) ==
    /\ gens[g].pc \in Live
    /\ gens' = [gens EXCEPT ![g].pc = "closed"]
    /\ result' = [op |-> "close", sid |-> gens[g].sid, gen |-> g, status |-> "ok", value |-> ""]
    /\ UNCHANGED <<config, provider, sessions, clock, appended, commit_log, snapshots, cacheVars, stream>>

\* faulty variant: the returned dict lacks the intents
HistoryWithoutIntents(sid) ==
    [session_id |-> sid,
     messages |-> sessions[sid].messages,
     summary |-> sessions[sid].summary,
     last_context |-> sessions[sid].last_context,
     last_retrievals |-> sessions[sid].last_retrievals,
     vector_store_dir |-> sessions[sid].vector_store_dir,
     updated_at |-> sessions[sid].updated_at]

\* the dict of lines 139-148, by value (its messages and intents are the session's
\* own list objects)
HistoryOf(sid) ==
    [session_id |-> sid,
     messages |-> sessions[sid].messages,
     summary |-> sessions[sid].summary,
     intents |-> sessions[sid].intents,
     last_context |-> sessions[sid].last_context,
     last_retrievals |-> sessions[sid].last_retrievals,
     vector_store_dir |-> sessions[sid].vector_store_dir,
     updated_at |-> sessions[sid].updated_at]

\* what the generators of session sid have yielded so far, in all
RECURSIVE YieldsOf(_, _)
YieldsOf(sid, n) ==
    IF n = 0 THEN 0
    ELSE YieldsOf(sid, n - 1) + (IF gens[n].sid = sid THEN Len(gens[n].yielded) ELSE 0)

\* the last two get_history returns for sid, the newest being `snapshot`, each
\* with the commits and yields of the session's generators up to the call
Remembered(sid, snapshot) ==
    LET entry == [value |-> snapshot, commits |-> CommitsOf(sid),
                  yields |-> YieldsOf(sid, Len(gens))]
    IN  IF sid \in DOMAIN snapshots
        THEN <<snapshots[sid][Len(snapshots[sid])], entry>>
        ELSE <<entry>>

\* ChatService.get_history
GetHistory(sid) ==
    /\ result' = IF sid \in Known
                 THEN [op |-> "get_history", sid |-> sid, gen |-> 0, status |-> "ok",
                       value |-> HistoryOf(sid)]
                 ELSE Raised("get_history", sid, "ValueError")
    /\ snapshots' = IF sid \in Known
                    THEN Put(snapshots, sid, Remembered(sid, HistoryOf(sid)))
                    ELSE snapshots
    /\ UNCHANGED <<config, provider, sessions, gens, clock, appended, commit_log, cacheVars, stream>>

Next ==
    \/ Tick
    \/ \E sid \in SessionIds, req \in Requests : StreamChat(sid, req)
    \/ \E g \in DOMAIN gens : NextNotice(g)
    \/ \E g \in DOMAIN gens : NextToken(g)
    \/ \E g \in DOMAIN gens : NextEnd(g)
    \/ \E g \in DOMAIN gens : NextFail(g)
    \/ \E g \in DOMAIN gens : Close(g)

Spec == Init /\ [][Next]_vars

(***************************************************************************)
(* The service with the calls it rejects: blank and non-blank session ids  *)
(* and messages.                                                           *)
(***************************************************************************)
ApiSessionIds == {"", " ", "s1"}

ApiRequests == {[BaseRequest EXCEPT !.message = m] : m \in {"", "  ", "hi"}}

\* a service constructed with a history cap of two and a prompt budget of 45
InitApi ==
    /\ Init
    /\ config.max_history_messages = 2
    /\ config.max_prompt_tokens = 45

NextApi ==
    \/ Tick
    \/ \E sid \in ApiSessionIds, req \in ApiRequests : StreamChatRejected(sid, req)
    \/ \E sid \in ApiSessionIds, req \in ApiRequests : StreamChat(sid, req)
    \/ \E g \in DOMAIN gens : NextNotice(g)
    \/ \E g \in DOMAIN gens : NextToken(g)
    \/ \E g \in DOMAIN gens : NextEnd(g)
    \/ \E g \in DOMAIN gens : NextFail(g)
    \/ \E g \in DOMAIN gens : Close(g)

SpecApi == InitApi /\ [][NextApi]_vars

(***************************************************************************)
(* The core actions on a service of one configuration, or of two: a cap of *)
(* two under a budget of 45; a cap of 0 under the same budget; a cap of    *)
(* two with the budget off or at 45.                                       *)
(***************************************************************************)
SpecBudgeted == InitApi /\ [][Next]_vars

InitUncapped ==
    /\ InitService({0}, {45})
    /\ InitManager(DEFAULT_CACHE_TTL_SECONDS)

SpecUncapped == InitUncapped /\ [][Next]_vars

InitBudgets ==
    /\ InitService({MaxCap}, {-1, 45})
    /\ InitManager(DEFAULT_CACHE_TTL_SECONDS)

SpecBudgets == InitBudgets /\ [][Next]_vars

(***************************************************************************)
(* The turns of one session with get_history called at any point.          *)
(***************************************************************************)
NextHistory ==
    \/ Tick
    \/ \E sid \in SessionIds : StreamChat(sid, BaseRequest)
    \/ \E g \in DOMAIN gens : NextNotice(g)
    \/ \E g \in DOMAIN gens : NextToken(g)
    \/ \E g \in DOMAIN gens : NextEnd(g)
    \/ \E g \in DOMAIN gens : NextFail(g)
    \/ \E g \in DOMAIN gens : Close(g)
    \/ \E sid \in SessionIds : GetHistory(sid)

SpecHistory == InitApi /\ [][NextHistory]_vars

(***************************************************************************)
(* The turns of one session under the options of a request: retrieval      *)
(* locations absent, empty and two different ones, and system prompt       *)
(* overrides absent, empty and given.                                      *)
(***************************************************************************)
OptionRequests ==
    {[BaseRequest EXCEPT !.vector_store_dir = o.dir, !.system_prompt = o.sp] :
        o \in {[dir |-> None, sp |-> None],
               [dir |-> Some(""), sp |-> Some("")],
               [dir |-> Some("d1"), sp |-> Some("Be brief.")],
               [dir |-> Some("d2"), sp |-> None]}}

NextOptions ==
    \/ Tick
    \/ \E sid \in SessionIds, req \in OptionRequests : StreamChat(sid, req)
    \/ \E g \in DOMAIN gens : NextNotice(g)
    \/ \E g \in DOMAIN gens : NextToken(g)
    \/ \E g \in DOMAIN gens : NextEnd(g)
    \/ \E g \in DOMAIN gens : NextFail(g)
    \/ \E g \in DOMAIN gens : Close(g)

SpecOptions == InitApi /\ [][NextOptions]_vars

(***************************************************************************)
(* The turns of one session, overlapping or not, with intent tracking on   *)
(* or off, and with next() called again on a generator that has ended.     *)
(***************************************************************************)
RoomyCap == 4

TurnRequests ==
    {[BaseRequest EXCEPT !.message = o.m, !.enable_intent_tracking = o.t] :
        o \in {[m |-> "hi", t |-> None], [m |-> "yo", t |-> Some(FALSE)]}}

InitTurns ==
    /\ InitService({2, RoomyCap}, {45})
    /\ InitManager(DEFAULT_CACHE_TTL_SECONDS)

\* next() on a generator that returned, raised or was closed: StopIteration, and no
\* code of the generator runs
NextExhausted(g) ==
    /\ gens[g].pc \notin Live
    /\ result' = [op |-> "next", sid |-> gens[g].sid, gen |-> g, status |-> "StopIteration",
                  value |-> "", logged |-> <<>>, again |-> TRUE]
    /\ UNCHANGED <<config, provider, sessions, gens, clock, appended, commit_log, snapshots,
                   cacheVars, stream>>

NextTurns ==
    \/ Tick
    \/ \E sid \in SessionIds, req \in TurnRequests : StreamChat(sid, req)
    \/ \E g \in DOMAIN gens : NextNotice(g)
    \/ \E g \in DOMAIN gens : NextToken(g)
    \/ \E g \in DOMAIN gens : NextEnd(g)
    \/ \E g \in DOMAIN gens : NextFail(g)
    \/ \E g \in DOMAIN gens : Close(g)
    \/ \E g \in DOMAIN gens : NextExhausted(g)

SpecTurns == InitTurns /\ [][NextTurns]_vars

(***************************************************************************)
(* The same turns with a backend that does not fail and a consumer that    *)
(* keeps calling next(): every generator whose next() can run is resumed.  *)
(***************************************************************************)
\* next() on generator g, the backend's stream being finite and not failing
Consume(g) ==
    /\ g \in DOMAIN gens
    /\ NextNotice(g) \/ NextToken(g) \/ NextEnd(g)

NextConsumed ==
    \/ Tick
    \/ \E sid \in SessionIds, req \in TurnRequests : StreamChat(sid, req)
    \/ \E g \in DOMAIN gens : Consume(g)
    \/ \E g \in DOMAIN gens : NextExhausted(g)

SpecConsumed ==
    /\ InitTurns
    /\ [][NextConsumed]_vars
    /\ \A g \in 1..MaxTurns : WF_vars(Consume(g))

(***************************************************************************)
(* ChatLLMClient.stream_completion (chat_module/llm_client.py): the        *)
(* generator that reads the lines of a streaming response.                 *)
(***************************************************************************)
HelLine == "data: {\"choices\":[{\"delta\":{\"content\":\"Hel\"}}]}"
LoLine == "data:{\"choices\":[{\"delta\":{\"content\":\"lo\"}}]} "
RoleLine == "data: {\"choices\":[{\"delta\":{\"role\":\"assistant\"}}]}"
NoChoiceLine == "{\"choices\":[]}"
DoneLine == "data: [DONE]"
PingLine == ": ping"

\* the lines response.iter_lines() may deliver
StreamLines == {"", HelLine, LoLine, RoleLine, NoChoiceLine, DoneLine, PingLine}

\* the bodies of a streaming response: up to MaxLines lines
StreamBodies == UNION {[1..n -> StreamLines] : n \in 0..MaxLines}

\* json.loads on the texts that reach it
JsonLoads(text) ==
    CASE text = "{\"choices\":[{\"delta\":{\"content\":\"Hel\"}}]}" ->
            [ok |-> TRUE, value |-> [choices |-> <<[delta |-> [content |-> "Hel"]]>>]]
      [] text = "{\"choices\":[{\"delta\":{\"content\":\"lo\"}}]}" ->
            [ok |-> TRUE, value |-> [choices |-> <<[delta |-> [content |-> "lo"]]>>]]
      [] text = "{\"choices\":[{\"delta\":{\"role\":\"assistant\"}}]}" ->
            [ok |-> TRUE, value |-> [choices |-> <<[delta |-> [role |-> "assistant"]]>>]]
      [] text = "{\"choices\":[]}" ->
            [ok |-> TRUE, value |-> [choices |-> <<>>]]
      [] OTHER -> [ok |-> FALSE, value |-> <<>>]

\* ChatLLMClient._extract_delta
ExtractDelta(payload) ==
    LET choices == IF "choices" \in DOMAIN payload THEN payload.choices ELSE <<>>
    IN  IF Len(choices) = 0 THEN ""
        ELSE LET first == choices[1]
             IN  IF "delta" \in DOMAIN first /\ "content" \in DOMAIN first.delta
                 THEN first.delta.content
                 ELSE ""

\* lines 49-51: the line decoded and stripped, without its "data:" prefix
LineText(raw_line) ==
    LET line == Strip(raw_line)
    IN  IF StartsWith(line, "data:") THEN Strip(SubSeq(line, 6, Len(line))) ELSE line

\* lines 47-54: the text of a raw line that goes on to json.loads, or "" when the
\* line is skipped
DataOf(raw_line) ==
    IF raw_line = "" THEN ""
    ELSE IF LineText(raw_line) = "" \/ LineText(raw_line) = "[DONE]" THEN ""
    ELSE LineText(raw_line)

\* lines 47-62 for one line: the token it makes the generator yield, or ""
TokenOf(raw_line) ==
    LET data == DataOf(raw_line)
        parsed == JsonLoads(data)
    IN  IF data = "" \/ ~parsed.ok THEN "" ELSE ExtractDelta(parsed.value)

\* the loop of lines 46-63 resumed after `pos` lines: it reads on to the next line
\* that yields a token, or to the end of the response
RECURSIVE Scan(_, _)
Scan(lines, pos) ==
    IF pos >= Len(lines) THEN [pos |-> Len(lines), token |-> ""]
    ELSE IF TokenOf(lines[pos + 1]) # "" THEN [pos |-> pos + 1, token |-> TokenOf(lines[pos + 1])]
    ELSE Scan(lines, pos + 1)

\* a stream_completion call: the generator is created, nothing is sent yet; `body`
\* is what the backend will answer
StreamCompletion(body) ==
    /\ stream.pc = "idle"
    /\ stream' = [pc |-> "start", lines |-> body, pos |-> 0, yielded |-> <<>>]
    /\ UNCHANGED <<chatVars, cacheVars>>

\* next() on the generator: the request of lines 38-44 on the first call, then the
\* loop up to the next yield or to its end
StreamNext ==
    /\ stream.pc \in {"start", "suspended"}
    /\ LET found == Scan(stream.lines, stream.pos)
       IN  stream' = IF found.token # ""
                     THEN [stream EXCEPT !.pc = "suspended", !.pos = found.pos,
                                         !.yielded = Append(@, found.token)]
                     ELSE [stream EXCEPT !.pc = "done", !.pos = found.pos]
    /\ UNCHANGED <<chatVars, cacheVars>>

\* next() on the generator: requests.post, raise_for_status or iter_lines raises
StreamRaise ==
    /\ stream.pc \in {"start", "suspended"}
    /\ stream' = [stream EXCEPT !.pc = "failed"]
    /\ UNCHANGED <<chatVars, cacheVars>>

NextStream ==
    \/ \E body \in StreamBodies : StreamCompletion(body)
    \/ StreamNext
    \/ StreamRaise

SpecStream == InitApi /\ [][NextStream]_vars

(***************************************************************************)
(* Two sessions whose turns interleave, with list_sessions called at any   *)
(* point and get_history once after each stream_chat call.                 *)
(***************************************************************************)
TwoSessionIds == {"s1", "s2"}

\* the request made for each of the two sessions
RequestOf(sid) ==
    IF sid = "s1" THEN BaseRequest
    ELSE [BaseRequest EXCEPT !.message = "yo", !.vector_store_dir = Some("d1")]

\* a retrieval that returns a context
FoundContext == [ok |-> TRUE, context |-> "doc text", results |-> <<"doc1">>]

\* the generator that created session sid: sessions are listed in the order of
\* their insertion into the sessions dict
FirstGen(sid) == CHOOSE g \in DOMAIN gens :
                    gens[g].sid = sid /\ \A h \in DOMAIN gens : gens[h].sid = sid => g <= h

\* lines 153-165: the entry of one session
SessionEntry(sid) ==
    LET session == sessions[sid]
    IN  [session_id |-> sid,
         updated_at |-> session.updated_at,
         summary |-> session.summary,
         last_message |-> IF session.messages # <<>>
                          THEN session.messages[Len(session.messages)].content ELSE "",
         vector_store_dir |-> session.vector_store_dir,
         message_count |-> Len(session.messages),
         intents |-> PySliceFrom(session.intents, -3)]

\* line 166: sorted(..., reverse=True) is stable; a precedes b in the result
ListedBefore(a, b) ==
    \/ sessions[a].updated_at > sessions[b].updated_at
    \/ sessions[a].updated_at = sessions[b].updated_at /\ FirstGen(a) < FirstGen(b)

\* what list_sessions returns
SessionList ==
    [i \in 1..Cardinality(Known) |->
        SessionEntry(CHOOSE sid \in Known :
                        Cardinality({b \in Known : ListedBefore(b, sid)}) = i - 1)]

\* ChatService.list_sessions
ListSessions ==
    /\ result' = [op |-> "list_sessions", sid |-> "", gen |-> 0, status |-> "ok",
                  value |-> SessionList]
    /\ UNCHANGED <<config, provider, sessions, gens, clock, appended, commit_log, snapshots,
                   cacheVars, stream>>

NextIsolation ==
    \/ Tick
    \/ \E sid \in TwoSessionIds, sout \in CompleteOutcomes :
          StreamChatWith(sid, RequestOf(sid), FoundContext, sout)
    \/ \E g \in DOMAIN gens : NextNotice(g)
    \/ \E g \in DOMAIN gens : NextToken(g)
    \/ \E g \in DOMAIN gens, out \in CompleteOutcomes : NextEndWith(g, out, out)
    \/ \E g \in DOMAIN gens : NextFail(g)
    \/ \E g \in DOMAIN gens : Close(g)
    \/ \E sid \in TwoSessionIds : snapshots = <<>> /\ GetHistory(sid)
    \/ ListSessions

SpecIsolation == InitApi /\ [][NextIsolation]_vars

(***************************************************************************)
(* CachedVectorStoreManager (load_vectorstore/loader.py).  A call reads    *)
(* time.monotonic() more than once: `now` in _evict_stale, `later` where   *)
(* the entry is touched or inserted, `last` in the _touch that ends query. *)
(***************************************************************************)
\* faulty variant: nothing is ever evicted
EvictStaleNever(c, now) == c

\* faulty variant: an entry is evicted as soon as its age reaches the ttl
EvictStaleEager(c, now) ==
    [sid \in {x \in DOMAIN c : ~(now - c[x].last_access >= ttl_seconds)} |-> c[sid]]

\* faulty variant: an entry is evicted one second late
EvictStaleLate(c, now) ==
    [sid \in {x \in DOMAIN c : ~(now - c[x].last_access > ttl_seconds + 1)} |-> c[sid]]

\* CachedVectorStoreManager._evict_stale: the entries it leaves
EvictStale(c, now) ==
    [sid \in {x \in DOMAIN c : ~(now - c[x].last_access > ttl_seconds)} |-> c[sid]]

\* faulty variant: the entry keeps its last_access
TouchNothing(c, sid, now) == c

\* CachedVectorStoreManager._touch
Touch(c, sid, now) ==
    IF sid \in DOMAIN c THEN [c EXCEPT ![sid].last_access = now] ELSE c

\* faulty variant: the entry is inserted before the store is loaded
GetLoaderOnCachingFirst(c, n, sid, now, later, lout) ==
    IF sid = ""
    THEN [cache |-> c, loaded |-> n, status |-> "ValueError", loader |-> 0, loads |-> 0,
          searches |-> 0]
    ELSE LET kept == EvictStale(c, now)
         IN  IF sid \in DOMAIN kept
             THEN [cache |-> Touch(kept, sid, later), loaded |-> n, status |-> "ok",
                   loader |-> kept[sid].loader, loads |-> 0, searches |-> 0]
             ELSE IF ~lout
             THEN [cache |-> Put(kept, sid, [loader |-> 0, last_access |-> later]),
                   loaded |-> n, status |-> "LoadError", loader |-> 0,
                   loads |-> 1, searches |-> 0]
             ELSE [cache |-> Put(kept, sid, [loader |-> n + 1, last_access |-> later]),
                   loaded |-> n + 1, status |-> "ok", loader |-> n + 1, loads |-> 1,
                   searches |-> 0]

\* CachedVectorStoreManager.get_loader on cache c with n loaders made so far;
\* load_vector_store, if called, returns a loader iff `lout`
GetLoaderOn(c, n, sid, now, later, lout) ==
    IF sid = ""
    THEN [cache |-> c, loaded |-> n, status |-> "ValueError", loader |-> 0, loads |-> 0,
          searches |-> 0]
    ELSE LET kept == EvictStale(c, now)
         IN  IF sid \in DOMAIN kept
             THEN [cache |-> Touch(kept, sid, later), loaded |-> n, status |-> "ok",
                   loader |-> kept[sid].loader, loads |-> 0, searches |-> 0]
             ELSE IF ~lout
             THEN [cache |-> kept, loaded |-> n, status |-> "LoadError", loader |-> 0,
                   loads |-> 1, searches |-> 0]
             ELSE [cache |-> Put(kept, sid, [loader |-> n + 1, last_access |-> later]),
                   loaded |-> n + 1, status |-> "ok", loader |-> n + 1, loads |-> 1,
                   searches |-> 0]

\* how the two searches of query end: both return, loader.search raises, or
\* the search inside loader.build_context raises
SearchOutcomes == {"ok", "search", "context"}

\* CachedVectorStoreManager.query; loader.search and loader.build_context end as
\* `qout`
QueryOn(c, n, sid, now, later, last, lout, qout) ==
    LET got == GetLoaderOn(c, n, sid, now, later, lout)
    IN  IF got.status # "ok" THEN got
        ELSE IF qout = "search" THEN [got EXCEPT !.status = "SearchError", !.searches = 1]
        ELSE IF qout = "context" THEN [got EXCEPT !.status = "SearchError", !.searches = 2]
        ELSE [got EXCEPT !.cache = Touch(@, sid, last), !.searches = 2]

\* the manager after a call for sid that went as `out` and ended at time `end`
Called(op, sid, out, end) ==
    LET gone == {x \in DOMAIN cache : x \notin DOMAIN out.cache}
               \cup {x \in DOMAIN cache \cap DOMAIN out.cache :
                        out.cache[x].loader # cache[x].loader}
        noted == [x \in (DOMAIN evictions \cup gone) \ (IF out.loads = 1 /\ out.status # "LoadError" THEN {sid} ELSE {}) |->
                    IF x \in gone THEN [loader |-> cache[x].loader, by |-> sid]
                    ELSE evictions[x]]
    IN  /\ cache_result.call < MaxCalls
        /\ cache' = out.cache
        /\ loaded' = out.loaded
        /\ monotonic' = end
        /\ evictions' = noted
        /\ cache_result' = [op |-> op, sid |-> sid, call |-> cache_result.call + 1,
                            status |-> out.status, loader |-> out.loader,
                            loads |-> out.loads, searches |-> out.searches,
                            began |-> monotonic, ended |-> end,
                            previous |-> IF sid \in DOMAIN cache
                                         THEN Some(cache[sid]) ELSE None,
                            after |-> IF cache_result.call = 0 THEN None
                                      ELSE Some([op |-> cache_result.op,
                                                 sid |-> cache_result.sid,
                                                 status |-> cache_result.status,
                                                 ended |-> cache_result.ended]),
                            found_evicted |-> IF sid \in DOMAIN evictions
                                              THEN Some(evictions[sid]) ELSE None]
        /\ UNCHANGED <<ttl_seconds, chatVars, stream>>

\* time passes between calls
Elapse ==
    /\ monotonic < MaxMonotonic
    /\ monotonic' = monotonic + 1
    /\ UNCHANGED <<ttl_seconds, cache, loaded, cache_result, evictions, chatVars, stream>>

\* the times a call that starts now may read after `from`
Readings(from) == {t \in from..(from + 1) : t <= MaxMonotonic}

GetLoader(sid) ==
    \E lout \in BOOLEAN, later \in Readings(monotonic) :
        LET out == GetLoaderOn(cache, loaded, sid, monotonic, later, lout)
        IN  Called("get_loader", sid, out, IF out.status = "ValueError" THEN monotonic ELSE later)

Query(sid) ==
    \E lout \in BOOLEAN, qout \in SearchOutcomes, later \in Readings(monotonic) :
        \E last \in Readings(later) :
            LET out == QueryOn(cache, loaded, sid, monotonic, later, last, lout, qout)
            IN  Called("query", sid, out,
                       IF out.status = "ValueError" THEN monotonic
                       ELSE IF out.status = "LoadError" THEN later ELSE last)

\* the session ids the manager is asked for
CacheSessionIds == {"", "a", "b"}

\* the values of ttl_seconds a manager is constructed with
TtlValues == {0, 1}

InitCache ==
    /\ InitChat
    /\ config.max_history_messages = 2
    /\ config.max_prompt_tokens = 45
    /\ \E ttl \in TtlValues : InitManager(ttl)

NextCache ==
    \/ Elapse
    \/ \E sid \in CacheSessionIds : GetLoader(sid)
    \/ \E sid \in CacheSessionIds : Query(sid)

SpecCache == InitCache /\ [][NextCache]_vars

(***************************************************************************)
(* Vocabulary of the properties.                                           *)
(***************************************************************************)
\* the last n entries of seq, all of it when it has fewer
LastN(seq, n) == SubSeq(seq, Max(1, Len(seq) - n + 1), Len(seq))

IsSuffix(a, b) == Len(a) <= Len(b) /\ a = SubSeq(b, Len(b) - Len(a) + 1, Len(b))

AssistantsOf(messages) == SelectSeq(messages, LAMBDA m : m.role = "assistant")
NonSystemOf(messages) == SelectSeq(messages, LAMBDA m : m.role # "system")

RECURSIVE Concat(_)
Concat(texts) == IF texts = <<>> THEN "" ELSE Head(texts) \o Concat(Tail(texts))

\* the cost model of the specification: max(1, floor(len/4)) per message, summed
MessageCost(m) == IF Len(m.content) < 4 THEN 1 ELSE Len(m.content) \div 4

RECURSIVE PromptCost(_)
PromptCost(prompt) ==
    IF prompt = <<>> THEN 0 ELSE MessageCost(Head(prompt)) + PromptCost(Tail(prompt))

\* the assembled prompt of generator g's turn costs more than a positive budget
OverBudget(g) ==
    /\ config.max_prompt_tokens > 0
    /\ PromptCost(gens[g].assembled) > config.max_prompt_tokens

\* the consumer of generator g stopped iterating before exhaustion
Abandoned(g) == gens[g].pc = "closed"

\* no other turn of g's session has committed since g's stream_chat call
NoCommitSince(g) == CommitsOf(gens[g].sid) = gens[g].commits0

\* g's is the latest stream_chat call of its session
LatestCall(g) == \A h \in DOMAIN gens : gens[h].sid = gens[g].sid => h <= g

\* the step exhausts generator g: its next() call ran the code after the loop
Exhausts(g) == g \in DOMAIN gens /\ gens[g].pc # "done" /\ gens'[g].pc = "done"

\* the call that returned r logged a failure of its `what` request
Logged(r, what) == "logged" \in DOMAIN r /\ \E i \in DOMAIN r.logged : r.logged[i] = what

\* the prompt holds a context note
HasContextNote(prompt) ==
    \E i \in DOMAIN prompt :
        prompt[i].role = "system" /\ StartsWith(prompt[i].content, ContextNotePrefix)

\* the cached entry of sid is older than the manager's ttl
Stale(sid) == sid \in DOMAIN cache /\ monotonic - cache[sid].last_access > ttl_seconds

\* the turn of generator g has intent tracking enabled
Tracks(g) == Flag(gens[g].enable_intent_tracking, config.enable_intent_tracking)

\* sequence `a` is the beginning of sequence `b`
IsPrefix(a, b) == Len(a) <= Len(b) /\ SubSeq(b, 1, Len(a)) = a

\* the lines of a response that precede its first [DONE] line
BeforeDone(lines) ==
    LET done == {i \in DOMAIN lines : LineText(lines[i]) = "[DONE]"}
    IN  IF done = {} THEN lines
        ELSE SubSeq(lines, 1, (CHOOSE i \in done : \A j \in done : i <= j) - 1)

\* the non-empty deltas the lines carry, in order
RECURSIVE DeltasOf(_)
DeltasOf(lines) ==
    IF lines = <<>> THEN <<>>
    ELSE (IF TokenOf(Head(lines)) # "" THEN <<TokenOf(Head(lines))>> ELSE <<>>)
         \o DeltasOf(Tail(lines))

\* the turn of generator g ended without its commit: abandoned, or its completion
\* failed; and no other turn of its session was started or committed since its call
Uncommitted(g) ==
    /\ gens[g].pc \in {"closed", "failed"}
    /\ NoCommitSince(g)
    /\ LatestCall(g)

\* the conversation-summary system notes of a prompt
SummaryNotesOf(prompt) ==
    SelectSeq(prompt, LAMBDA m : m.role = "system" /\ StartsWith(m.content, SummaryNotePrefix))

\* the step is a call of the manager
Calls == cache_result'.call # cache_result.call

\* the step removes the cached entry of sid, or puts another loader in its place
Removes(sid) ==
    /\ sid \in DOMAIN cache
    /\ sid \notin DOMAIN cache' \/ cache'[sid].loader # cache[sid].loader

\* the step is a call of the manager that got past the check of its session id
Asks == cache_result'.call # cache_result.call /\ cache_result'.status # "ValueError"

\* the step is the next() call in which generator g's completion request fails
Fails(g) == g \in DOMAIN gens /\ gens[g].pc # "failed" /\ gens'[g].pc = "failed"

(***************************************************************************)
(* C1.  History cap: after each fully consumed turn the session holds at   *)
(* most max_history_messages messages, and they are the most recently      *)
(* appended ones in their original order, for every cap >= 0.              *)
(* Fails for max_history_messages = 0: messages[-0:] is the whole list.    *)
(***************************************************************************)
C1_HistoryCap ==
    (result.op = "next" /\ result.status = "StopIteration") =>
        LET s == sessions[result.sid]
            cap == config.max_history_messages
        IN  /\ Len(s.messages) <= cap
            /\ s.messages = LastN(appended[result.sid], cap)

(***************************************************************************)
(* C2.  Abandoned stream: once the consumer has stopped iterating before   *)
(* exhaustion, and while no other turn of the session has committed, the   *)
(* session shows no new assistant message and updated_at, last_context and *)
(* last_retrievals are as they were before the stream_chat call.           *)
(***************************************************************************)
C2_AbandonedStreamCommitsNothing ==
    \A g \in DOMAIN gens :
        (Abandoned(g) /\ NoCommitSince(g)) =>
            LET s == sessions[gens[g].sid]
                pre == gens[g].pre
            IN  /\ IsSuffix(AssistantsOf(s.messages), AssistantsOf(pre.messages))
                /\ s.updated_at = pre.updated_at
                /\ s.last_context = pre.last_context
                /\ s.last_retrievals = pre.last_retrievals

\* a stream closed after a fragment, whose turn had retrieved a context the
\* session does not show
C2_Witness ==
    \E g \in DOMAIN gens :
        /\ gens[g].pc = "closed" /\ gens[g].fragments >= 1 /\ NoCommitSince(g)
        /\ gens[g].context_text # ""
        /\ sessions[gens[g].sid].last_context = ""

(***************************************************************************)
(* C3, as claimed.  After a stream_chat call whose sequence is not         *)
(* consumed to exhaustion (no other turn of the session started or         *)
(* committed meanwhile), summary and intents equal their values before the *)
(* call.  Fails: an over-budget call with an empty summary runs            *)
(* _ensure_summary during the call.                                        *)
(***************************************************************************)
C3_AbandonedLeavesSummary ==
    \A g \in DOMAIN gens :
        (Abandoned(g) /\ NoCommitSince(g) /\ LatestCall(g)) =>
            /\ sessions[gens[g].sid].summary = gens[g].pre.summary
            /\ sessions[gens[g].sid].intents = gens[g].pre.intents

(***************************************************************************)
(* C3, amended.  After such a call, with no other turn of the session      *)
(* started or committed meanwhile, the intents equal their value before    *)
(* the call, and so does the summary unless the assembled prompt exceeded  *)
(* a positive budget while the summary was empty: then the call made one   *)
(* summary request.                                                        *)
(***************************************************************************)
C3_AbandonedLeavesSummaryUnlessEnsured ==
    \A g \in DOMAIN gens :
        (Abandoned(g) /\ NoCommitSince(g) /\ LatestCall(g)) =>
            /\ sessions[gens[g].sid].intents = gens[g].pre.intents
            /\ \/ sessions[gens[g].sid].summary = gens[g].pre.summary
               \/ OverBudget(g) /\ gens[g].pre.summary = "" /\ gens[g].call_completes = 1

\* a stream closed after a fragment, whose call had set the summary
C3_Witness ==
    \E g \in DOMAIN gens :
        /\ gens[g].pc = "closed" /\ gens[g].fragments >= 1
        /\ NoCommitSince(g) /\ LatestCall(g)
        /\ sessions[gens[g].sid].summary # gens[g].pre.summary

(***************************************************************************)
(* C4, as claimed.  A stream_chat call itself issues no request to the     *)
(* completion backend.  Fails: _ensure_summary.                            *)
(***************************************************************************)
C4_CallIssuesNoRequest ==
    \A g \in DOMAIN gens : gens[g].call_streams = 0 /\ gens[g].call_completes = 0

(***************************************************************************)
(* C4, amended.  A stream_chat call issues no incremental request, and a   *)
(* one-shot request only when the assembled prompt exceeds a positive      *)
(* budget while the summary is empty: then exactly one.  Until the         *)
(* returned sequence is consumed, the turn has issued no other request.    *)
(***************************************************************************)
C4_CallIssuesOnlyEnsuredSummary ==
    \A g \in DOMAIN gens :
        /\ gens[g].call_streams = 0
        /\ gens[g].call_completes =
              (IF OverBudget(g) /\ gens[g].enforce_in.summary = "" THEN 1 ELSE 0)
        /\ gens[g].pc = "start" => (gens[g].run_streams = 0 /\ gens[g].run_completes = 0)

\* an untouched generator whose call made the summary request, and an untouched
\* over-budget one whose call made none
C4_Witness ==
    /\ \E g \in DOMAIN gens : gens[g].pc = "start" /\ gens[g].call_completes = 1
    /\ \E g \in DOMAIN gens :
        gens[g].pc = "start" /\ OverBudget(g) /\ gens[g].call_completes = 0

(***************************************************************************)
(* C5.  Commit on full consumption: the step that exhausts a generator     *)
(* leaves, when max_history_messages >= 1, an assistant message as the     *)
(* last entry of the history, its content the concatenation in order of    *)
(* everything the sequence yielded; last_context and last_retrievals are   *)
(* the context and results of this turn and updated_at is the time of the  *)
(* commit.                                                                 *)
(***************************************************************************)
C5_CommitOnExhaustion ==
    [][\A g \in DOMAIN gens :
         Exhausts(g) =>
            LET s == sessions'[gens[g].sid]
            IN  /\ config.max_history_messages >= 1 =>
                      /\ s.messages # <<>>
                      /\ s.messages[Len(s.messages)] =
                            Msg("assistant", Concat(gens'[g].yielded))
                /\ s.last_context = gens[g].context_text
                /\ s.last_retrievals = gens[g].retrievals
                /\ s.updated_at = clock
                /\ s.updated_at >= sessions[gens[g].sid].updated_at]_vars

\* an exhausted generator that yielded the notice and two fragments, with a
\* retrieved context, after the clock moved
C5_Witness ==
    /\ result.op = "next" /\ result.status = "StopIteration"
    /\ config.max_history_messages >= 1
    /\ Len(gens[result.gen].yielded) >= 3
    /\ gens[result.gen].context_text # ""
    /\ sessions[result.sid].last_context = gens[result.gen].context_text
    /\ sessions[result.sid].updated_at > gens[result.gen].pre.updated_at

(***************************************************************************)
(* C6.  Truncation notice: the first element a generator yields is the     *)
(* notice if and only if budget enforcement rebuilt the prompt of its      *)
(* turn; no later element is the notice; no backend request is made before *)
(* the notice is out; and the reply recorded at exhaustion starts with the *)
(* notice if and only if the prompt was rebuilt.                           *)
(***************************************************************************)
C6_TruncationNotice ==
    [][\A g \in DOMAIN gens' :
         LET gen == gens'[g]
         IN  /\ gen.yielded # <<>> => (gen.yielded[1] = TruncationNotice <=> gen.truncated)
             /\ \A i \in 2..Len(gen.yielded) : gen.yielded[i] # TruncationNotice
             /\ (gen.truncated /\ gen.yielded = <<>>) => gen.run_streams = 0
             /\ Exhausts(g) =>
                  LET s == sessions'[gen.sid]
                  IN  /\ s.messages # <<>>
                      /\ s.messages[Len(s.messages)].role = "assistant"
                      /\ StartsWith(s.messages[Len(s.messages)].content, TruncationNotice)
                            <=> gen.truncated]_vars

\* an exhausted generator of a rebuilt prompt, and one of a prompt left alone
C6_Witness ==
    /\ \E g \in DOMAIN gens :
        gens[g].pc = "done" /\ gens[g].truncated /\ Len(gens[g].yielded) >= 2
    /\ \E g \in DOMAIN gens :
        gens[g].pc = "done" /\ ~gens[g].truncated /\ Len(gens[g].yielded) >= 1

(***************************************************************************)
(* C7.  Budget property: when the assembled prompt costs more than a       *)
(* positive budget, the enforcer's flag is true and the only non-system    *)
(* message of the rebuilt prompt is the user message of the current turn.  *)
(***************************************************************************)
C7_RebuiltKeepsCurrentTurn ==
    \A g \in DOMAIN gens :
        OverBudget(g) =>
            /\ gens[g].truncated
            /\ NonSystemOf(gens[g].prompt_messages) = <<Msg("user", gens[g].message)>>

\* an over-budget turn whose assembled prompt held earlier turns too
C7_Witness ==
    \E g \in DOMAIN gens :
        OverBudget(g) /\ Len(NonSystemOf(gens[g].assembled)) >= 2

(***************************************************************************)
(* C8.  The prompt passed to the completion backend costs at most the      *)
(* budget, when the budget is positive.  Fails: the rebuilt prompt is      *)
(* never measured, and it keeps every system message and adds two.         *)
(***************************************************************************)
C8_SentPromptWithinBudget ==
    \A g \in DOMAIN gens :
        (config.max_prompt_tokens > 0 /\ gens[g].run_streams >= 1) =>
            PromptCost(gens[g].sent) <= config.max_prompt_tokens

(***************************************************************************)
(* C9.  Budget enforcement leaves the stored history alone: the session's  *)
(* messages after the enforcer are those it was given, rebuilt or not.     *)
(***************************************************************************)
C9_EnforcerKeepsHistory ==
    \A g \in DOMAIN gens : gens[g].enforce_out.messages = gens[g].enforce_in.messages

\* an enforcer call that rebuilt the prompt of a session holding two messages
C9_Witness ==
    \E g \in DOMAIN gens :
        /\ gens[g].truncated
        /\ Len(gens[g].enforce_in.messages) >= 2
        /\ gens[g].prompt_messages # gens[g].assembled

(***************************************************************************)
(* C10.  Budget pass-through: with a budget <= 0, or an assembled prompt   *)
(* costing at most the budget, the enforcer returns the assembled prompt   *)
(* unchanged with flag false; the flag is true only for a positive budget  *)
(* that the cost exceeds.                                                  *)
(***************************************************************************)
C10_BudgetPassThrough ==
    \A g \in DOMAIN gens :
        LET budget == config.max_prompt_tokens
            cost == PromptCost(gens[g].assembled)
        IN  /\ (budget <= 0 \/ cost <= budget) =>
                  (gens[g].prompt_messages = gens[g].assembled /\ ~gens[g].truncated)
            /\ gens[g].truncated => (budget > 0 /\ cost > budget)

\* a prompt that costs exactly the budget passes, and a later one of the same
\* session that costs more does not
C10_Witness ==
    /\ \E g \in DOMAIN gens :
        /\ config.max_prompt_tokens > 0
        /\ PromptCost(gens[g].assembled) = config.max_prompt_tokens
        /\ ~gens[g].truncated
    /\ \E g \in DOMAIN gens : gens[g].truncated

(***************************************************************************)
(* C11.  Input validation: every stream_chat call that did not fail had a  *)
(* session_id and a message that are neither empty nor whitespace-only.    *)
(* Fails: line 81 tests `not session_id`, which a whitespace-only          *)
(* session_id passes.                                                      *)
(***************************************************************************)
C11_RejectsBlankArguments ==
    \A g \in DOMAIN gens :
        /\ Strip(gens[g].sid) # ""
        /\ Strip(gens[g].message) # ""

(***************************************************************************)
(* C12.  Rejected call has no effect: a stream_chat call that raises       *)
(* ValueError creates no session, changes no field of a session and        *)
(* creates no generator, so that no retrieval and no completion request    *)
(* has been made (every request of the model is made by Prepare or by a    *)
(* generator step).                                                        *)
(***************************************************************************)
C12_RejectedCallHasNoEffect ==
    [][(result'.op = "stream_chat" /\ result'.status = "ValueError") =>
          /\ sessions' = sessions
          /\ gens' = gens
          /\ appended' = appended
          /\ commit_log' = commit_log]_vars

\* a blank message was just rejected for a session that has a committed turn and
\* a pending generator
C12_Witness ==
    /\ result.op = "stream_chat"
    /\ result.status = "ValueError"
    /\ result.sid \in Known
    /\ CommitsOf(result.sid) = 1
    /\ \E g \in DOMAIN gens : gens[g].sid = result.sid /\ gens[g].pc = "start"

(***************************************************************************)
(* C18.  get_history changes no session and no generator.  For an unknown  *)
(* id it raises (ValueError, the program's NotFound) and the id stays      *)
(* unknown; for a known id it returns the id and every field of the        *)
(* session, each with the session's value.                                 *)
(***************************************************************************)
C18_GetHistory ==
    [][result'.op = "get_history" =>
          /\ sessions' = sessions
          /\ gens' = gens
          /\ IF result'.sid \in Known
             THEN /\ result'.status = "ok"
                  /\ DOMAIN result'.value = DOMAIN sessions[result'.sid] \cup {"session_id"}
                  /\ result'.value.session_id = result'.sid
                  /\ \A f \in DOMAIN sessions[result'.sid] :
                        result'.value[f] = sessions[result'.sid][f]
             ELSE /\ result'.status = "ValueError"
                  /\ result'.sid \notin DOMAIN sessions']_vars

\* the history of a session with a committed turn, a summary and an intent was
\* just returned
C18_Witness ==
    /\ result.op = "get_history"
    /\ result.status = "ok"
    /\ Len(result.value.messages) = 2
    /\ result.value.summary # ""
    /\ result.value.intents # <<>>

(***************************************************************************)
(* C19, as claimed.  Two get_history calls for a session with no           *)
(* stream_chat call between them return equal snapshots, also when a       *)
(* generator of the session is consumed between the two.  Fails: the       *)
(* next() call that exhausts a generator runs the commit of lines 121-130. *)
(***************************************************************************)
C19_HistoryIdempotent ==
    \A sid \in DOMAIN snapshots :
        Len(snapshots[sid]) = 2 => snapshots[sid][1].value = snapshots[sid][2].value

(***************************************************************************)
(* C19, amended.  Two get_history calls for a session return equal         *)
(* snapshots when, between them, no stream_chat call passed validation and *)
(* no generator of the session was exhausted; generators pending, or       *)
(* yielding between the two calls, make no difference.                     *)
(***************************************************************************)
C19_HistoryIdempotentUntilCommit ==
    \A sid \in DOMAIN snapshots :
        (Len(snapshots[sid]) = 2 /\ snapshots[sid][1].commits = snapshots[sid][2].commits)
            => snapshots[sid][1].value = snapshots[sid][2].value

\* two returns with a yield of the session's generator, and a move of the clock,
\* between them
C19_Witness ==
    \E sid \in DOMAIN snapshots :
        /\ Len(snapshots[sid]) = 2
        /\ snapshots[sid][1].commits = snapshots[sid][2].commits
        /\ snapshots[sid][1].yields < snapshots[sid][2].yields
        /\ snapshots[sid][1].value.updated_at < clock

(***************************************************************************)
(* C13.  Retrieval failure never aborts the turn: a stream_chat call whose *)
(* retrieval raised has returned a generator, has appended the user        *)
(* message, and has assembled and sent a prompt without a context note;    *)
(* when its generator is exhausted, last_context and last_retrievals are   *)
(* left empty.                                                             *)
(***************************************************************************)
C13_RetrievalFailureNeverAborts ==
    [][\A g \in DOMAIN gens' :
          gens'[g].retrieval_failed =>
              LET said == gens'[g].enforce_in.messages
              IN  /\ said # <<>>
                  /\ said[Len(said)] = Msg("user", gens'[g].message)
                  /\ ~HasContextNote(gens'[g].assembled)
                  /\ ~HasContextNote(gens'[g].prompt_messages)
                  /\ gens'[g].context_text = ""
                  /\ gens'[g].retrievals = <<>>
                  /\ Exhausts(g) =>
                        /\ sessions'[gens[g].sid].last_context = ""
                        /\ sessions'[gens[g].sid].last_retrievals = <<>>]_vars

\* the second turn of a session failed to retrieve and was consumed to the end:
\* the context the first turn had left is gone
C13_Witness ==
    \E g \in DOMAIN gens :
        /\ gens[g].retrieval_failed
        /\ gens[g].pc = "done"
        /\ gens[g].pre.last_context = "doc text"
        /\ gens[g].fragments >= 1
        /\ sessions[gens[g].sid].last_context = ""
        /\ sessions[gens[g].sid].last_retrievals = <<>>

(***************************************************************************)
(* C16.  Summary and intent refresh are independently best-effort: the     *)
(* next() call that exhausts a generator ends the sequence normally and    *)
(* leaves the reply, last_context, last_retrievals and updated_at          *)
(* committed whatever the two requests do; a failed summary request leaves *)
(* the summary as it was and the intent request is still made; a failed    *)
(* intent request leaves the intents as they were.                         *)
(***************************************************************************)
C16_RefreshesBestEffort ==
    [][\A g \in DOMAIN gens :
          Exhausts(g) =>
              LET old == sessions[gens[g].sid]
                  new == sessions'[gens[g].sid]
                  tracks == Flag(gens[g].enable_intent_tracking, config.enable_intent_tracking)
              IN  /\ result'.status = "StopIteration"
                  /\ Logged(result', "summary") =>
                        /\ new.summary = old.summary
                        /\ tracks => gens'[g].run_completes = gens[g].run_completes + 2
                        /\ (tracks /\ ~Logged(result', "intent")) =>
                              new.intents \in {old.intents} \cup
                                  {Append(old.intents, Strip(o.text)) : o \in CompleteOutcomes}
                  /\ Logged(result', "intent") => new.intents = old.intents
                  /\ config.max_history_messages >= 1 =>
                        new.messages[Len(new.messages)] =
                            Msg("assistant", gens'[g].assistant_reply)
                  /\ new.last_context = gens[g].context_text
                  /\ new.last_retrievals = gens[g].retrievals
                  /\ new.updated_at = clock]_vars

\* the second turn of a session was just committed: its summary request failed,
\* the summary of the first turn stands, and its intent was recorded
C16_Witness ==
    /\ result.op = "next"
    /\ result.status = "StopIteration"
    /\ result.gen = 2
    /\ result.logged = <<"summary">>
    /\ sessions[result.sid].summary # ""
    /\ Len(sessions[result.sid].intents) = 2
    /\ sessions[result.sid].updated_at = 1

(***************************************************************************)
(* C17.  Primary completion failure is fatal for the turn: the next() call *)
(* in which the incremental request fails, before or after fragments,      *)
(* raises to the consumer, changes no session, makes no summary or intent  *)
(* request and commits nothing; the failed generator never changes again.  *)
(***************************************************************************)
C17_CompletionFailureIsFatal ==
    [][\A g \in DOMAIN gens :
          /\ Fails(g) =>
                /\ result'.op = "next" /\ result'.gen = g
                /\ result'.status = "Unavailable"
                /\ sessions' = sessions
                /\ gens'[g].run_completes = gens[g].run_completes
                /\ commit_log' = commit_log
                /\ appended' = appended
          /\ gens[g].pc = "failed" => gens'[g] = gens[g]]_vars

\* the request failed after a fragment of a turn with a retrieved context: the
\* history ends with the user message and the session shows none of the turn
C17_Witness ==
    /\ result.op = "next"
    /\ result.status = "Unavailable"
    /\ gens[result.gen].fragments >= 1
    /\ gens[result.gen].context_text = "doc text"
    /\ sessions[result.sid].last_context = ""
    /\ LET messages == sessions[result.sid].messages
       IN  /\ messages # <<>>
           /\ messages[Len(messages)] = Msg("user", gens[result.gen].message)
           /\ \A i \in DOMAIN messages : messages[i].role = "user"
    /\ \E h \in DOMAIN gens : gens[h].pc = "failed" /\ gens[h].fragments = 0

(***************************************************************************)
(* C14.  Sticky binding: a session's vector_store_dir, while empty or      *)
(* None, becomes non-empty exactly by a stream_chat call of the session    *)
(* that passes a non-empty location, and then is that location; once       *)
(* non-empty, no step changes it.                                          *)
(***************************************************************************)
C14_StickyBinding ==
    [][\A sid \in DOMAIN sessions' :
          LET before == IF sid \in DOMAIN sessions THEN sessions[sid].vector_store_dir ELSE None
              after == sessions'[sid].vector_store_dir
              called == /\ gens' # gens
                        /\ result'.op = "stream_chat"
                        /\ result'.status = "ok"
                        /\ result'.sid = sid
          IN  IF Truthy(before) THEN after = before
              ELSE IF called /\ Truthy(gens'[result'.gen].vector_store_dir)
                   THEN after = gens'[result'.gen].vector_store_dir
                   ELSE ~Truthy(after)]_vars

\* a session whose first call passed no location, bound by its second call
C14_Witness ==
    /\ Len(gens) = 2
    /\ gens[1].sid = gens[2].sid
    /\ gens[1].vector_store_dir = None
    /\ gens[2].vector_store_dir = Some("d2")
    /\ sessions[gens[1].sid].vector_store_dir = Some("d2")

(***************************************************************************)
(* C15.  Prompt assembly order: the assembled prompt is the system prompt  *)
(* (the non-empty override of the request, else the configured one), then  *)
(* one summary note iff the summary is non-empty, then one context note    *)
(* iff the retrieved context is non-empty, then the stored messages in     *)
(* stored order.                                                           *)
(***************************************************************************)
C15_PromptAssemblyOrder ==
    \A g \in DOMAIN gens :
        LET session == gens[g].enforce_in
            override == gens[g].system_prompt
        IN  gens[g].assembled =
                <<Msg("system", IF Truthy(override) THEN override[1] ELSE config.system_prompt)>>
                \o (IF session.summary = "" THEN <<>>
                    ELSE <<Msg("system", "Conversation summary: " \o session.summary)>>)
                \o (IF gens[g].context_text = "" THEN <<>>
                    ELSE <<Msg("system", "Context for this turn:\n" \o gens[g].context_text)>>)
                \o session.messages

\* a prompt with an override, a summary note, a context note and two messages
C15_Witness ==
    \E g \in DOMAIN gens :
        /\ gens[g].system_prompt = Some("Be brief.")
        /\ gens[g].enforce_in.summary # ""
        /\ gens[g].context_text # ""
        /\ Len(gens[g].assembled) = 5
        /\ gens[g].assembled[2].role = "system"
        /\ gens[g].assembled[3].role = "system"

(***************************************************************************)
(* C20.  TTL property: a get_loader or query call for a session id that is *)
(* not empty leaves no entry of another session that was stale when the    *)
(* call began; and the first call for a session after its entry was        *)
(* evicted (and until a loader is cached for it again) calls               *)
(* load_vector_store and, unless that raises, uses and caches the new      *)
(* loader, never the evicted one.                                          *)
(***************************************************************************)
C20_TtlEviction ==
    [][Asks =>
          LET sid == cache_result'.sid
          IN  /\ \A other \in DOMAIN cache \ {sid} : Stale(other) => other \notin DOMAIN cache'
              /\ sid \in DOMAIN evictions =>
                    /\ cache_result'.loads = 1
                    /\ cache_result'.status # "LoadError" =>
                          /\ cache_result'.loader # evictions[sid].loader
                          /\ cache_result'.loader = loaded + 1
                          /\ loaded' = loaded + 1
                          /\ sid \in DOMAIN cache'
                          /\ cache'[sid].loader = cache_result'.loader]_vars

\* a query just used a new loader for a session whose earlier loader a call for
\* another session had evicted, and that other session is still cached
C20_Witness ==
    /\ cache_result.op = "query"
    /\ cache_result.status = "ok"
    /\ cache_result.found_evicted # None
    /\ cache_result.found_evicted[1].by # cache_result.sid
    /\ cache_result.found_evicted[1].by \in DOMAIN cache
    /\ cache_result.loader > cache_result.found_evicted[1].loader
    /\ ttl_seconds = 1

(***************************************************************************)
(* C21.  get_loader steps: a get_loader call that returns leaves exactly   *)
(* the entries that were not stale when it began, those of other sessions  *)
(* untouched, and one entry for its session.  If that entry was there and  *)
(* not stale, its loader is returned, nothing is loaded, and its           *)
(* last_access is the time read by _touch; otherwise exactly one loader is *)
(* made, returned and inserted with the time read at the insertion.        *)
(***************************************************************************)
C21_GetLoaderSteps ==
    [][(Calls /\ cache_result'.op = "get_loader" /\ cache_result'.status = "ok") =>
          LET sid == cache_result'.sid
              kept == {x \in DOMAIN cache : ~Stale(x)}
          IN  /\ DOMAIN cache' = kept \cup {sid}
              /\ \A x \in kept \ {sid} : cache'[x] = cache[x]
              /\ monotonic' >= monotonic
              /\ cache'[sid].last_access = monotonic'
              /\ cache'[sid].loader = cache_result'.loader
              /\ IF sid \in kept
                 THEN /\ cache_result'.loader = cache[sid].loader
                      /\ cache_result'.loads = 0
                      /\ loaded' = loaded
                 ELSE /\ cache_result'.loads = 1
                      /\ loaded' = loaded + 1
                      /\ cache_result'.loader = loaded']_vars

\* a get_loader call found its session cached, touched the entry at a later time
\* and evicted the stale entry of another session
C21_Witness ==
    /\ cache_result.op = "get_loader"
    /\ cache_result.status = "ok"
    /\ cache_result.loads = 0
    /\ cache_result.previous # None
    /\ cache[cache_result.sid].last_access > cache_result.previous[1].last_access
    /\ \E x \in DOMAIN evictions : evictions[x].by = cache_result.sid /\ x # cache_result.sid

(***************************************************************************)
(* C22.  ttl = 0: a query for the session of the previous query, begun     *)
(* later than that query ended, calls load_vector_store and, unless that   *)
(* raises, uses a loader made in this call, not the one of the previous    *)
(* query.                                                                  *)
(***************************************************************************)
C22_ZeroTtlReloads ==
    [][(/\ ttl_seconds = 0
        /\ Asks
        /\ cache_result'.op = "query"
        /\ cache_result.call > 0
        /\ cache_result.op = "query"
        /\ cache_result.sid = cache_result'.sid
        /\ monotonic > cache_result.ended) =>
          /\ cache_result'.loads = 1
          /\ cache_result'.status # "LoadError" =>
                /\ cache_result'.loader = loaded + 1
                /\ cache_result'.loader # cache_result.loader]_vars

\* with ttl 0, the second of two queries that both returned, begun after the
\* first ended, used another loader than the one the first had cached
C22_Witness ==
    /\ ttl_seconds = 0
    /\ cache_result.op = "query"
    /\ cache_result.status = "ok"
    /\ cache_result.after # None
    /\ cache_result.after[1].op = "query"
    /\ cache_result.after[1].sid = cache_result.sid
    /\ cache_result.after[1].status = "ok"
    /\ cache_result.began > cache_result.after[1].ended
    /\ cache_result.previous # None
    /\ cache_result.loader # cache_result.previous[1].loader

(***************************************************************************)
(* C23.  Cache query failure: a call raises ValueError exactly for an      *)
(* empty session id, and then nothing was evicted, loaded or searched; a   *)
(* load that raises ends the call with that error after a single attempt,  *)
(* with no entry for the session in the cache; a search that raises ends   *)
(* the query with that error, without another load or search.              *)
(***************************************************************************)
C23_QueryFailure ==
    [][Calls =>
          LET r == cache_result'
          IN  /\ r.status = "ValueError" <=> r.sid = ""
              /\ r.status = "ValueError" =>
                    /\ cache' = cache /\ loaded' = loaded /\ evictions' = evictions
                    /\ r.loads = 0 /\ r.searches = 0
              /\ r.loads \in {0, 1}
              /\ (r.loads = 1 /\ loaded' = loaded) <=> r.status = "LoadError"
              /\ r.status = "LoadError" =>
                    /\ r.sid \notin DOMAIN cache'
                    /\ r.searches = 0
              /\ r.op = "get_loader" => r.searches = 0
              /\ r.searches = 1 => r.status = "SearchError"
              /\ r.status = "SearchError" => (r.op = "query" /\ r.searches \in {1, 2})
              /\ (r.op = "query" /\ r.status = "ok") => r.searches = 2]_vars

\* a query just failed to load the store for a session whose stale entry it had
\* evicted: the session is not cached
C23_Witness ==
    /\ cache_result.op = "query"
    /\ cache_result.status = "LoadError"
    /\ cache_result.previous # None
    /\ cache_result.sid \notin DOMAIN cache
    /\ \E x \in DOMAIN cache : x # cache_result.sid

(***************************************************************************)
(* C26.  Eviction is lazy and only for staleness: an entry leaves the      *)
(* cache only in a get_loader or query call that got past the check of its *)
(* session id, and only if it was stale when the call began; a call for a  *)
(* session whose entry is not stale uses that entry's loader and loads     *)
(* nothing; a step that is no call of the manager leaves the cache as it   *)
(* is.                                                                     *)
(***************************************************************************)
C26_LazyEviction ==
    [][/\ \A sid \in DOMAIN cache :
             /\ Removes(sid) => (Asks /\ Stale(sid))
             /\ (Asks /\ cache_result'.sid = sid /\ ~Stale(sid)) =>
                   /\ cache_result'.loader = cache[sid].loader
                   /\ cache_result'.loads = 0
                   /\ loaded' = loaded
       /\ ~Calls => cache' = cache]_vars

\* an entry that has been stale for a while, nobody having called the manager
C26_Witness ==
    \E sid \in DOMAIN cache :
        /\ monotonic - cache[sid].last_access > ttl_seconds + 1
        /\ cache_result.ended < monotonic - 1
        /\ ttl_seconds = 1

(***************************************************************************)
(* C27.  Inactivity is measured from the last successful use: the          *)
(* last_access of an entry that stays in the cache changes only in a query *)
(* for its session that returns.  Fails: get_loader touches the entry it   *)
(* finds (line 227), so a query whose search then raises, and a plain      *)
(* get_loader call, advance last_access too.                               *)
(***************************************************************************)
C27_TouchedOnlyBySuccessfulQuery ==
    [][\A sid \in DOMAIN cache :
          (/\ ~Removes(sid)
           /\ cache'[sid].last_access # cache[sid].last_access) =>
              /\ Calls
              /\ cache_result'.op = "query"
              /\ cache_result'.sid = sid
              /\ cache_result'.status = "ok"]_vars

(***************************************************************************)
(* C24.  Intents are append-only: every step keeps the intents of every    *)
(* session as the beginning of the new list and adds at most one entry;    *)
(* an entry is added exactly in the step that exhausts a generator whose   *)
(* turn has intent tracking enabled and whose extraction request did not   *)
(* fail.  Fails: a request that returns an empty text adds no entry.       *)
(***************************************************************************)
C24_IntentsAppendOnly ==
    [][\A sid \in DOMAIN sessions :
          LET old == sessions[sid].intents
              new == sessions'[sid].intents
          IN  /\ IsPrefix(old, new)
              /\ Len(new) <= Len(old) + 1
              /\ Len(new) = Len(old) + 1 <=>
                    \E g \in DOMAIN gens :
                        /\ gens[g].sid = sid
                        /\ Exhausts(g)
                        /\ Tracks(g)
                        /\ ~Logged(result', "intent")]_vars

(***************************************************************************)
(* What _track_intent does instead.  Every step keeps the intents of every *)
(* session as the beginning of the new list; the step that exhausts a      *)
(* generator whose turn has intent tracking enabled and whose extraction   *)
(* request returns a non-empty text appends that text, stripped, and       *)
(* nothing else; every other step (tracking disabled, a failed request, an *)
(* empty text, a yield, a failure, a close, a stream_chat call) leaves the *)
(* list as it is.                                                          *)
(***************************************************************************)
IntentsAppendOnlyNonEmpty ==
    [][/\ \A sid \in DOMAIN sessions : IsPrefix(sessions[sid].intents, sessions'[sid].intents)
       /\ \A g \in DOMAIN gens, sumOut \in CompleteOutcomes, intOut \in CompleteOutcomes :
             NextEndWith(g, sumOut, intOut) =>
                sessions'[gens[g].sid].intents =
                    IF Tracks(g) /\ intOut.ok /\ intOut.text # ""
                    THEN Append(sessions[gens[g].sid].intents, Strip(intOut.text))
                    ELSE sessions[gens[g].sid].intents
       /\ (~\E g \in DOMAIN gens : Exhausts(g)) =>
             \A sid \in DOMAIN sessions : sessions'[sid].intents = sessions[sid].intents]_vars

(***************************************************************************)
(* C28.  Single-writer ordering: when a generator is exhausted whose       *)
(* stream_chat call was made after every earlier turn of the session had   *)
(* been consumed to exhaustion, and no later call for the session has been *)
(* made, and max_history_messages >= 2, the last two messages of the       *)
(* session are the user message of that turn and its assistant reply.      *)
(***************************************************************************)
C28_SingleWriterOrdering ==
    [][\A g \in DOMAIN gens :
          (/\ Exhausts(g)
           /\ config.max_history_messages >= 2
           /\ LatestCall(g)
           /\ \A h \in 1..(g - 1) : gens[h].sid = gens[g].sid => gens[h].pc = "done"
           /\ gens[g].commits0 = Cardinality({h \in 1..(g - 1) : gens[h].sid = gens[g].sid})) =>
              LastN(sessions'[gens[g].sid].messages, 2) =
                  <<Msg("user", gens[g].message),
                    Msg("assistant", gens'[g].assistant_reply)>>]_vars

\* the second of two turns that did not overlap has just committed under a cap of
\* two: the messages are its user message and its reply
C28_Witness ==
    /\ config.max_history_messages = 2
    /\ commit_log = <<1, 2>>
    /\ gens[2].commits0 = 1
    /\ gens[1].message = "hi" /\ gens[2].message = "yo"
    /\ result.op = "next" /\ result.gen = 2 /\ result.status = "StopIteration"
    /\ "again" \notin DOMAIN result
    /\ sessions["s1"].messages = <<Msg("user", "yo"), Msg("assistant", "ok then")>>

(***************************************************************************)
(* C29.  Same-session race: when the second stream_chat call of a session  *)
(* is made before the first turn has committed, the prompt it assembles    *)
(* carries the user message of the first turn directly followed by its     *)
(* own, with no reply between them, and the prompt sent is that prompt     *)
(* unless the budget enforcer rebuilt it; once both turns have committed   *)
(* under a cap that holds four messages, the session holds the two user    *)
(* messages followed by the two replies in the order of the commits, so    *)
(* the first reply committed does not follow the user message it answers.  *)
(***************************************************************************)
C29_SameSessionRace ==
    (/\ Len(gens) = 2
     /\ gens[1].sid = gens[2].sid
     /\ gens[2].commits0 = 0
     /\ config.max_history_messages >= 2) =>
        LET uA == Msg("user", gens[1].message)
            uB == Msg("user", gens[2].message)
        IN  /\ NonSystemOf(gens[2].assembled) = <<uA, uB>>
            /\ ~gens[2].truncated => gens[2].prompt_messages = gens[2].assembled
            /\ AssistantsOf(gens[2].prompt_messages) = <<>>
            /\ (Len(commit_log) = 2 /\ config.max_history_messages = RoomyCap) =>
                  sessions[gens[1].sid].messages =
                      <<uA, uB,
                        Msg("assistant", gens[commit_log[1]].assistant_reply),
                        Msg("assistant", gens[commit_log[2]].assistant_reply)>>

\* both turns consumed to exhaustion after both calls: user A, user B, reply A,
\* reply B, and the prompt sent for the second turn held user A without a reply
C29_Witness ==
    /\ Len(gens) = 2
    /\ gens[2].commits0 = 0
    /\ gens[1].pc = "done" /\ gens[2].pc = "done"
    /\ commit_log = <<1, 2>>
    /\ NonSystemOf(gens[2].sent) = <<Msg("user", "hi"), Msg("user", "yo")>>
    /\ sessions["s1"].messages =
          <<Msg("user", "hi"), Msg("user", "yo"),
            Msg("assistant", "ok"), Msg("assistant", "ok then")>>

(***************************************************************************)
(* C30.  Finite, single-pass, commit-exactly-once: with a finite stream    *)
(* that does not fail and a consumer that keeps iterating, every generator *)
(* is eventually exhausted; the session changes in no next() that yields a *)
(* fragment, the last one included; the exhausting next() appends the      *)
(* reply once, records the context and the retrievals of the turn and sets *)
(* updated_at, and commits once per generator; a next() on the exhausted   *)
(* generator yields nothing and changes nothing.                           *)
(***************************************************************************)
C30_CommitExactlyOnce ==
    /\ \A g \in 1..MaxTurns :
          (g \in DOMAIN gens) ~> (g \in DOMAIN gens /\ gens[g].pc = "done")
    /\ [][\A g \in DOMAIN gens :
             LET sid == gens[g].sid
             IN  /\ (result'.op = "next" /\ result'.gen = g /\ result'.status = "yield") =>
                       /\ sessions' = sessions
                       /\ commit_log' = commit_log
                 /\ Exhausts(g) =>
                       /\ result'.status = "StopIteration"
                       /\ result'.value = ""
                       /\ gens[g].fragments = gens'[g].fragments
                       /\ sessions'[sid].messages =
                             LastN(Append(sessions[sid].messages,
                                          Msg("assistant", Concat(gens[g].yielded))),
                                   config.max_history_messages)
                       /\ sessions'[sid].last_context = gens[g].context_text
                       /\ sessions'[sid].last_retrievals = gens[g].retrievals
                       /\ sessions'[sid].updated_at = clock
                       /\ commit_log' = Append(commit_log, g)
                       /\ \A i \in DOMAIN commit_log : commit_log[i] # g
                 /\ (gens[g].pc = "done" /\ result'.op = "next" /\ result'.gen = g) =>
                       /\ result'.status = "StopIteration"
                       /\ result'.value = ""
                       /\ sessions' = sessions
                       /\ gens' = gens
                       /\ commit_log' = commit_log]_vars

\* next() was called again on a generator that had delivered all its fragments and
\* committed: the session holds the reply once
C30_Witness ==
    /\ result.op = "next"
    /\ "again" \in DOMAIN result
    /\ gens[result.gen].pc = "done"
    /\ gens[result.gen].fragments = MaxFragments
    /\ commit_log = <<result.gen>>
    /\ Len(gens) = 1
    /\ sessions[result.sid].messages = <<Msg("user", "hi"), Msg("assistant", "ok then")>>

(***************************************************************************)
(* C25.  Incremental completion stops at end-of-stream: what               *)
(* stream_completion has yielded is always the beginning of the deltas of  *)
(* the lines that precede the first [DONE] line, in their order, and is    *)
(* all of them once the generator has returned.  Fails: the loop skips the *)
(* [DONE] line (llm_client.py line 53) and reads on, so a delta that       *)
(* arrives after it is yielded too.                                        *)
(***************************************************************************)
C25_StopsAtEndOfStream ==
    stream.pc \in {"suspended", "done", "failed"} =>
        LET due == DeltasOf(BeforeDone(stream.lines))
        IN  /\ IsPrefix(stream.yielded, due)
            /\ stream.pc = "done" => stream.yielded = due

(***************************************************************************)
(* What stream_completion does instead: it yields the deltas of all the    *)
(* lines of the response, in their order, until the connection closes.     *)
(***************************************************************************)
YieldsEveryDelta ==
    stream.pc \in {"suspended", "done", "failed"} =>
        /\ stream.yielded = DeltasOf(SubSeq(stream.lines, 1, stream.pos))
        /\ stream.pc = "done" => stream.pos = Len(stream.lines)

(***************************************************************************)
(* C31.  Retrieval follows the sticky binding: the location every          *)
(* retrieval of a turn was made on is the location the session was bound   *)
(* to when the retrieval was made.  Fails: build_context is given the      *)
(* location of the request (service.py line 94), which differs from the    *)
(* binding when the session was bound by an earlier request.               *)
(***************************************************************************)
C31_RetrievalFollowsBinding ==
    \A g \in DOMAIN gens :
        gens[g].queried # None =>
            gens[g].queried = gens[g].enforce_in.vector_store_dir

(***************************************************************************)
(* What stream_chat does instead: a retrieval is made exactly when the     *)
(* request carries a non-empty location (context being enabled), and on    *)
(* that location; a request without one retrieves nothing, bound session   *)
(* or not.                                                                 *)
(***************************************************************************)
RetrievalFollowsRequest ==
    \A g \in DOMAIN gens :
        /\ gens[g].queried # None <=> Truthy(gens[g].vector_store_dir)
        /\ gens[g].queried # None => gens[g].queried = gens[g].vector_store_dir

(***************************************************************************)
(* C32, as claimed.  After a turn that was abandoned or whose completion   *)
(* failed (no other turn of the session started or committed meanwhile),   *)
(* session.messages equals its value before the stream_chat call.  Fails:  *)
(* the call has appended the user message (line 103).                      *)
(***************************************************************************)
C32_UncommittedLeavesHistory ==
    \A g \in DOMAIN gens :
        Uncommitted(g) => sessions[gens[g].sid].messages = gens[g].pre.messages

(***************************************************************************)
(* C32, amended.  After such a turn session.messages is its value before   *)
(* the call with the user message of the turn appended and the list cut to *)
(* its last max_history_messages entries (not cut under a cap of 0): the   *)
(* user message is the last entry, without a reply, and no assistant       *)
(* message was added.                                                      *)
(***************************************************************************)
C32_UncommittedKeepsUserMessage ==
    \A g \in DOMAIN gens :
        Uncommitted(g) =>
            LET grown == Append(gens[g].pre.messages, Msg("user", gens[g].message))
                cap == config.max_history_messages
                messages == sessions[gens[g].sid].messages
            IN  /\ messages = IF cap > 0 THEN LastN(grown, cap) ELSE grown
                /\ messages[Len(messages)] = Msg("user", gens[g].message)

\* under a cap of two, the second turn was abandoned after a fragment: its user
\* message is left last without a reply, and the user message of the first turn
\* was dropped for it
C32_Witness ==
    /\ config.max_history_messages = 2
    /\ Len(gens) = 2
    /\ gens[2].pc = "closed" /\ gens[2].fragments >= 1
    /\ commit_log = <<1>>
    /\ gens[2].commits0 = 1
    /\ gens[2].pre.messages = <<Msg("user", "hi"), Msg("assistant", "ok")>>
    /\ sessions["s1"].messages = <<Msg("assistant", "ok"), Msg("user", "yo")>>

(***************************************************************************)
(* C33.  Session isolation: no session is ever removed, and a step changes *)
(* a session only if it is a stream_chat call for that session or a next() *)
(* on a generator of that session; get_history and list_sessions change no *)
(* session at all.                                                         *)
(***************************************************************************)
C33_SessionIsolation ==
    [][/\ \A sid \in DOMAIN sessions :
             /\ sid \in DOMAIN sessions'
             /\ sessions'[sid] # sessions[sid] =>
                   /\ result'.op \in {"stream_chat", "next"}
                   /\ result'.sid = sid
       /\ \A sid \in DOMAIN sessions' \ DOMAIN sessions :
             result'.op = "stream_chat" /\ result'.sid = sid
       /\ (result' # result /\ result'.op \in {"get_history", "list_sessions", "close"}) =>
             sessions' = sessions]_vars

\* the turns of two sessions interleaved: the turn of s1 began first and committed
\* last, at a later time, and each session holds its own turn only
C33_Witness ==
    /\ Len(gens) = 2
    /\ gens[1].sid = "s1" /\ gens[2].sid = "s2"
    /\ commit_log = <<2, 1>>
    /\ sessions["s1"].messages = <<Msg("user", "hi"), Msg("assistant", "ok")>>
    /\ sessions["s2"].messages =
          <<Msg("user", "yo"), Msg("assistant", gens[2].assistant_reply)>>
    /\ gens[2].fragments = 2
    /\ sessions["s1"].vector_store_dir = None
    /\ sessions["s2"].vector_store_dir = Some("d1")
    /\ sessions["s1"].last_context = ""
    /\ sessions["s2"].last_context = "doc text"
    /\ sessions["s1"].updated_at = 1
    /\ sessions["s2"].updated_at = 0
    /\ result.op = "list_sessions"
    /\ result.value[1].session_id = "s1"

(***************************************************************************)
(* C34.  Summary never reverts to empty: no step takes the summary of a    *)
(* session from a non-empty text to the empty one.  Fails: a summary       *)
(* request that returns an empty completion is stored as it is             *)
(* (service.py line 200, llm_client.py line 90).                           *)
(***************************************************************************)
C34_SummaryNeverEmptied ==
    [][\A sid \in DOMAIN sessions :
          sessions[sid].summary # "" => sessions'[sid].summary # ""]_vars

(***************************************************************************)
(* C35.  Rebuilt prompt carries the summary once: every prompt rebuilt by  *)
(* budget enforcement holds the conversation-summary note exactly once     *)
(* when the session has a summary and not at all when it has none, and     *)
(* ends with the truncation note followed by the most recent non-system    *)
(* message.  Fails: the note _build_prompt had put into the prompt is kept *)
(* among the system messages (line 244) and a second one is appended       *)
(* (lines 250-251).                                                        *)
(***************************************************************************)
C35_RebuiltCarriesSummaryOnce ==
    \A g \in DOMAIN gens :
        gens[g].truncated =>
            LET prompt == gens[g].prompt_messages
                n == Len(prompt)
                turns == NonSystemOf(gens[g].assembled)
            IN  /\ Len(SummaryNotesOf(prompt)) =
                      IF gens[g].enforce_out.summary # "" THEN 1 ELSE 0
                /\ n >= 3
                /\ prompt[n] = turns[Len(turns)]
                /\ prompt[n - 1] = Msg("system", TruncationSystemNote)
                /\ NonSystemOf(prompt) = <<prompt[n]>>

(***************************************************************************)
(* What the enforcer does instead: the rebuilt prompt holds the note once  *)
(* if the summary was generated during the call (the session had none when *)
(* the prompt was assembled), twice if the session had a summary before,   *)
(* and not at all if it has none.                                          *)
(***************************************************************************)
RebuiltCarriesSummaryTwice ==
    \A g \in DOMAIN gens :
        gens[g].truncated =>
            Len(SummaryNotesOf(gens[g].prompt_messages)) =
                (IF gens[g].enforce_in.summary # "" THEN 1 ELSE 0)
                + (IF gens[g].enforce_out.summary # "" THEN 1 ELSE 0)

====
